---- MODULE Spec2Model ----
(***************************************************************************)
(* Study-guide RAG pipeline: the markdown indexer (indexer_vision.py) and  *)
(* the asynchronous guide builder (create_exam_guide.py).                  *)
(*                                                                         *)
(* Three state machines share the module, each with its own specification: *)
(*   SpecSplit   recursive_character_text_splitter, one loop iteration per *)
(*               step, on texts / windows / overlaps drawn from small sets *)
(*   SpecIndexer the indexing run: file tasks, embedding batches behind    *)
(*               the shared semaphore, the final sequential write          *)
(*   SpecGuide   the guide-building run: sequential preparation, bounded   *)
(*               concurrent generation, the write of the guide             *)
(* A machine that a specification does not run keeps its initial state.    *)
(***************************************************************************)
EXTENDS Integers, Sequences, FiniteSets, TLC

VARIABLES
    \* ---- recursive_character_text_splitter (one call)
    text,           \* the argument text, a sequence of characters
    chunk_size,     \* the argument chunk_size
    chunk_overlap,  \* the argument chunk_overlap
    start_index,    \* the loop cursor
    end_index,      \* end of the window appended last (0 before the first)
    chunks,         \* the list built by the loop, before the final filter
    split_iter,     \* loop iterations executed so far
    split_pc,       \* "call" | "loop" | "filter" | "done"
    split_result,   \* the returned list
    \* ---- indexer_vision.py: one indexing run
    file_raises,    \* per file: reading/parsing/chunking raises (lines 131-183)
    file_chunks,    \* per file: len(all_chunks_for_file) after line 183
    embed_faults,   \* what the embedding service can answer during this run
    fpc,            \* per file task: "new" | "gather" | "done"
    bstat,          \* per file, per batch: "queued" | "inflight" | "none" | "ok"
    bret,           \* per file, per batch: number of embeddings returned
    first_done,     \* per file: the batch whose call came back first (0: none)
    sem_value,      \* free permits of the shared semaphore
    sem_waiters,    \* the batch tasks that have not taken a permit yet, oldest first
    next_id,        \* ids handed out so far by uuid.uuid4()
    results,        \* per file: results_for_chroma as returned by its task
    main_pc,        \* "gather" | "write" | "finished" | "write_failed"
    all_ids, all_embeddings, all_documents, all_metadatas,
    write_i,        \* loop variable i of the add loop (0-based)
    added_count,
    collection,     \* the records of the vector collection, in insertion order
    \* ---- create_exam_guide.py: one guide-building run
    topics,         \* the loaded topics, in file order
    max_concurrent_generations, \* the global after line 288
    gsem_value,     \* free permits of the generation semaphore
    gsem_waiters,   \* generation tasks that have not taken a permit yet, oldest first
    topic_data_for_generation,  \* the (topic, prompt) pairs of lines 236-247
    gtask,          \* per task: "created" | "waiting" | "inflight" | "done"
    gout,           \* per task: what it returned
    completed,      \* the tasks in the order they finished
    explanations,   \* the list returned by the gather of line 264
    final_guide_content,    \* the header and the sections, in order
    guide_file,     \* the content of the output file (<<>>: not written)
    embed_failed,   \* the topics (by position) whose embed_query_async returned None
    chroma_queries, \* the topics (by position) for which collection.query was called
    gen_raised,     \* the topics (by position) whose generation call raised
    guide_pc,       \* "loaded" | "exit" | "prep" | "gather" | "compiled" | "saved" | "save_failed"
    \* ---- parse_vision_markdown_page (one call)
    page_content,   \* the argument, a sequence of lines
    data,           \* the dictionary built and returned
    heading_i,      \* position of the loop over headings_map
    parse_pc,       \* "main" | "headings" | "done"
    \* ---- process_md_file_async lines 129-183 (one file)
    pages,          \* the segments of the file, each a sequence of lines
    page_i,         \* segments the first loop has gone through
    current_page_num,
    assigned_page,  \* per segment gone through: its page_num_for_meta (0: skipped)
    page_data_list,
    chunk_page_i,   \* entries of page_data_list the second loop has gone through
    md_chunks,      \* all_chunks_for_file
    md_metadata,    \* all_metadata_for_file
    pages_pc,       \* "pages" | "chunks" | "done"
    \* ---- rag_exam_solver.py: one run
    query,          \* args.query
    n_results,      \* args.n_results
    ranked_store,   \* the records of the collection, nearest to the query first
    no_save,        \* args.no_save
    embed_outcome,  \* "none" | "ok" | "failed": how embed_query ended
    solver_embedding,   \* query_embedding
    solver_results, \* retrieved_results
    formatted_context,
    rag_prompt,
    explanation,
    output_json,    \* the content of the JSON file (<<>>: not written)
    solver_pc,      \* "embed" | "query" | "format" | "generate" | "output" | "finished" | "exit_1"
    \* ---- extract_exam_topics.py: one run
    exam_dir,       \* the .md files of --exam_dir as rglob lists them (NoExamDir: no such directory)
    file_outcome,   \* per file: what reading it and the call made for it come to
    md_files,
    exam_i,         \* position of the loop over md_files
    unique_topics,
    topic_list,
    exam_out,       \* the content of --output_file (NoFile: not written)
    extract_pc,     \* "scan" | "loop" | "finished" | "exit_0_no_files" | "exit_0_no_topics" | "exit_1"
    \* ---- structure_exam_topics.py: one run
    input_file,     \* the content of --input_file (MissingFile: no such file)
    original_topics,
    raw_text,       \* the reply of the model
    structured_topics,
    count_warning,  \* the warning of line 189 was printed
    structured_out, \* the content of --output_file (NoFile: not written)
    struct_pc       \* "load" | "call" | "returned" | "finished" | "exit_0" | "exit_1_load" | "exit_1"

splitVars == <<text, chunk_size, chunk_overlap, start_index, end_index,
               chunks, split_iter, split_pc, split_result>>

idxVars == <<file_raises, file_chunks, embed_faults, fpc, bstat, bret,
             first_done, sem_value, sem_waiters, next_id, results, main_pc,
             all_ids, all_embeddings, all_documents, all_metadatas, write_i,
             added_count, collection>>

guideVars == <<topics, max_concurrent_generations, gsem_value, gsem_waiters,
               topic_data_for_generation, gtask, gout, completed,
               explanations, final_guide_content, guide_file, embed_failed,
               chroma_queries, gen_raised, guide_pc>>

parseVars == <<page_content, data, heading_i, parse_pc>>

pagesVars == <<pages, page_i, current_page_num, assigned_page, page_data_list,
               chunk_page_i, md_chunks, md_metadata, pages_pc>>

solverVars == <<query, n_results, ranked_store, no_save, embed_outcome,
                solver_embedding,
                solver_results, formatted_context, rag_prompt, explanation,
                output_json, solver_pc>>

extractVars == <<exam_dir, file_outcome, md_files, exam_i, unique_topics,
                 topic_list, exam_out, extract_pc>>

structVars == <<input_file, original_topics, raw_text, structured_topics,
                count_warning, structured_out, struct_pc>>

vars == <<splitVars, idxVars, guideVars, parseVars, pagesVars, solverVars,
          extractVars, structVars>>

\* the variables of the machines other than the one named
notSplit == <<idxVars, guideVars, parseVars, pagesVars, solverVars,
    extractVars, structVars>>
notIndexer == <<splitVars, guideVars, parseVars, pagesVars, solverVars,
    extractVars, structVars>>
notGuide == <<splitVars, idxVars, parseVars, pagesVars, solverVars,
    extractVars, structVars>>
notParse == <<splitVars, idxVars, guideVars, pagesVars, solverVars,
    extractVars, structVars>>
notPages == <<splitVars, idxVars, guideVars, parseVars, solverVars,
    extractVars, structVars>>
notSolver == <<splitVars, idxVars, guideVars, parseVars, pagesVars,
    extractVars, structVars>>
notExtract == <<splitVars, idxVars, guideVars, parseVars, pagesVars,
    solverVars, structVars>>
notStruct == <<splitVars, idxVars, guideVars, parseVars, pagesVars,
    solverVars, extractVars>>

(***************************************************************************)
(* Bounds of the splitter inputs.                                          *)
(***************************************************************************)
MaxLen == 5
MaxWindow == 3
MaxOverlap == 3
\* every terminating call makes at most len(text) iterations; the cap only
\* cuts the runs whose cursor never reaches the end of the text
MaxIter == MaxLen + 2

Chars == {"a", "b", " "}

RECURSIVE SeqsUpTo(_, _)
SeqsUpTo(S, n) ==
    IF n = 0 THEN {<<>>}
    ELSE LET shorter == SeqsUpTo(S, n - 1)
         IN  shorter \cup {Append(s, c) : s \in {t \in shorter : Len(t) = n - 1}, c \in S}

Texts == SeqsUpTo(Chars, MaxLen)

Min(a, b) == IF a <= b THEN a ELSE b
Max(a, b) == IF a >= b THEN a ELSE b
CeilDiv(a, b) == (a + b - 1) \div b

(***************************************************************************)
(* Python string operations used by the splitter.                          *)
(***************************************************************************)
\* s[a:b] with Python's treatment of negative and out-of-range indices
PySliceIndex(i, n) == IF i < 0 THEN Max(i + n, 0) ELSE Min(i, n)

PySlice(s, a, b) ==
    LET lo == PySliceIndex(a, Len(s))
        hi == PySliceIndex(b, Len(s))
    IN  IF lo >= hi THEN <<>> ELSE SubSeq(s, lo + 1, hi)

\* s[a:]
PySliceFrom(s, a) == PySlice(s, a, Len(s))

IsSpace(c) == c = " "

\* bool(s.strip()): s holds a character that is not whitespace
StripNonEmpty(s) == \E i \in 1..Len(s) : ~IsSpace(s[i])

RECURSIVE FilterBlank(_)
FilterBlank(cs) ==
    IF cs = <<>> THEN <<>>
    ELSE IF StripNonEmpty(Head(cs)) THEN <<Head(cs)>> \o FilterBlank(Tail(cs))
         ELSE FilterBlank(Tail(cs))

(***************************************************************************)
(* recursive_character_text_splitter, indexer_vision.py 45-68.             *)
(***************************************************************************)
SplitIdle ==
    /\ text = <<>> /\ chunk_size = 1 /\ chunk_overlap = 0
    /\ start_index = 0 /\ end_index = 0 /\ chunks = <<>> /\ split_iter = 0
    /\ split_pc = "idle" /\ split_result = <<>>

SplitStart ==
    /\ text \in Texts
    /\ chunk_size \in 1..MaxWindow
    /\ chunk_overlap \in 0..MaxOverlap
    /\ start_index = 0 /\ end_index = 0 /\ chunks = <<>> /\ split_iter = 0
    /\ split_pc = "call" /\ split_result = <<>>

\* a text as long as the window goes to the loop
FitsWindowStrict == Len(text) < chunk_size

\* line 47: len(text) <= chunk_size
FitsWindow == Len(text) <= chunk_size

\* lines 47-48: a text no longer than the window is returned whole
SplitShort ==
    /\ split_pc = "call"
    /\ FitsWindow
    /\ split_result' = <<text>>
    /\ split_pc' = "done"
    /\ UNCHANGED notSplit
    /\ UNCHANGED <<text, chunk_size, chunk_overlap, start_index, end_index,
                   chunks, split_iter>>

\* lines 50-51
SplitBegin ==
    /\ split_pc = "call"
    /\ ~FitsWindow
    /\ chunks' = <<>>
    /\ start_index' = 0
    /\ split_pc' = "loop"
    /\ UNCHANGED notSplit
    /\ UNCHANGED <<text, chunk_size, chunk_overlap, end_index, split_iter,
                   split_result>>

\* a cursor that ignores the overlap
AdvanceNoOverlap(start) == start + chunk_size

\* line 56: the cursor after the normal advance
Advance(start) == start + chunk_size - chunk_overlap

\* lines 52-65: one iteration of the while loop
SplitIter ==
    /\ split_pc = "loop"
    /\ start_index < Len(text)
    /\ split_iter < MaxIter
    /\ LET e == Min(start_index + chunk_size, Len(text))
           s == Advance(start_index)
       IN  /\ end_index' = e
           /\ chunks' = Append(chunks, PySlice(text, start_index, e))
           /\ IF s >= e
              THEN IF s < Len(text)
                   THEN /\ start_index' = e
                        /\ split_pc' = "loop"
                   ELSE /\ start_index' = s
                        /\ split_pc' = "filter"
              ELSE /\ start_index' = s
                   /\ split_pc' = "loop"
    /\ split_iter' = split_iter + 1
    /\ UNCHANGED notSplit
    /\ UNCHANGED <<text, chunk_size, chunk_overlap, split_result>>

\* line 68, reached by the break of line 65 or by the loop condition of line 52
\* failing
SplitFilter ==
    /\ \/ split_pc = "filter"
       \/ split_pc = "loop" /\ start_index >= Len(text)
    /\ split_result' = FilterBlank(chunks)
    /\ split_pc' = "done"
    /\ UNCHANGED notSplit
    /\ UNCHANGED <<text, chunk_size, chunk_overlap, start_index, end_index,
                   chunks, split_iter>>

SplitNext == SplitShort \/ SplitBegin \/ SplitIter \/ SplitFilter

(***************************************************************************)
(* The indexing run, indexer_vision.py.                                    *)
(*                                                                         *)
(* A file enters the run as what lines 131-183 make of it: either they     *)
(* raise, or they leave len(all_chunks_for_file) chunks with one metadata  *)
(* dict each.  Chunk i of file f is the text ChunkText(f, i); texts of     *)
(* different chunks are kept distinct so that a mispairing shows.          *)
(***************************************************************************)
CHROMA_BATCH_SIZE == 100
MAX_CONCURRENT_EMBEDDINGS == 10

MaxBatches == 2

\* the file tasks of the run: a file and a sibling
Files == {1, 2}

\* chunk counts: none, one, a full batch, and one chunk more than 1, ...,
\* MaxBatches - 1 full batches
FileSizes ==
    {0, 1, CHROMA_BATCH_SIZE}
        \cup {k * CHROMA_BATCH_SIZE + 1 : k \in 1..(MaxBatches - 1)}

ChunkText(f, i) == <<"chunk", f, i>>
ChunkMeta(f, i) == <<"meta", f, i>>
all_chunks_for_file(f) == [i \in 1..file_chunks[f] |-> ChunkText(f, i)]
all_metadata_for_file(f) == [i \in 1..file_chunks[f] |-> ChunkMeta(f, i)]

\* the embedding service: the vector of a text, and a vector that belongs to
\* no requested text
Emb(t) == <<"emb", t>>
StrayEmb == <<"emb", "stray">>

\* lines 189-191: range(0, len, CHROMA_BATCH_SIZE), batch b is
\* all_chunks_for_file[(b-1)*100 : b*100]
NumBatches(f) == CeilDiv(file_chunks[f], CHROMA_BATCH_SIZE)
BatchLo(b) == (b - 1) * CHROMA_BATCH_SIZE
BatchTexts(f, b) ==
    PySlice(all_chunks_for_file(f), BatchLo(b), BatchLo(b) + CHROMA_BATCH_SIZE)
\* len(batch_texts)
BatchSize(f, b) ==
    Min(BatchLo(b) + CHROMA_BATCH_SIZE, file_chunks[f]) - Min(BatchLo(b), file_chunks[f])

\* what a call answers: None after an exception, else a list of vectors,
\* one per text in input order, cut or padded when the count is wrong
FaultKinds == {"ok", "raise", "short", "long"}
ReturnedCount(n, kind) ==
    CASE kind = "ok" -> n
      [] kind = "short" -> n - 1
      [] kind = "long" -> n + 1
      [] OTHER -> 0

BatchEmbeddings(f, b) ==
    LET texts == BatchTexts(f, b)
        n == Len(texts)
    IN  [k \in 1..bret[f][b] |-> IF k <= n THEN Emb(texts[k]) ELSE StrayEmb]

\* every batch number a file of the run can have
BatchIds == 1..Max(MaxBatches, MAX_CONCURRENT_EMBEDDINGS)

InFlight == {<<f, b>> \in Files \X BatchIds :
                b \in DOMAIN bstat[f] /\ bstat[f][b] = "inflight"}

IndexerIdle ==
    /\ file_raises = <<>> /\ file_chunks = <<>> /\ embed_faults = {}
    /\ fpc = <<>> /\ bstat = <<>> /\ bret = <<>> /\ first_done = <<>>
    /\ sem_value = 0 /\ sem_waiters = <<>> /\ next_id = 0 /\ results = <<>>
    /\ main_pc = "idle"
    /\ all_ids = <<>> /\ all_embeddings = <<>> /\ all_documents = <<>>
    /\ all_metadatas = <<>> /\ write_i = 0 /\ added_count = 0
    /\ collection = <<>>

\* main_async lines 255-262: the semaphore and the file tasks exist, nothing
\* has run yet
IndexerStarted ==
    /\ fpc = [f \in Files |-> "new"]
    /\ bstat = [f \in Files |-> <<>>]
    /\ bret = [f \in Files |-> <<>>]
    /\ first_done = [f \in Files |-> 0]
    /\ sem_value = MAX_CONCURRENT_EMBEDDINGS
    /\ sem_waiters = <<>>
    /\ next_id = 0
    /\ results = [f \in Files |-> <<>>]
    /\ main_pc = "gather"
    /\ all_ids = <<>> /\ all_embeddings = <<>> /\ all_documents = <<>>
    /\ all_metadatas = <<>> /\ write_i = 0 /\ added_count = 0
    /\ collection = <<>>

IndexerStart ==
    /\ file_raises \in [Files -> BOOLEAN]
    /\ file_chunks \in [Files -> FileSizes]
    /\ \A f \in Files : file_raises[f] => file_chunks[f] = 0
    /\ embed_faults = FaultKinds
    /\ IndexerStarted

\* a run with more batches than permits: the first file fills every permit,
\* the second adds one batch, any further file has no chunk; the service is
\* up or down for the whole run
IndexerStartLoaded ==
    /\ file_raises = [f \in Files |-> FALSE]
    /\ file_chunks = [f \in Files |->
           IF f = 1 THEN (MAX_CONCURRENT_EMBEDDINGS - 1) * CHROMA_BATCH_SIZE + 1
           ELSE IF f = 2 THEN 1 ELSE 0]
    /\ embed_faults \in {{"ok"}, {"raise"}}
    /\ IndexerStarted

Running == main_pc = "gather"

\* process_md_file_async up to its first await: lines 127-193, or to its
\* return when it raised (220-222) or found no chunk (186, 218)
StartFile(f) ==
    /\ Running
    /\ fpc[f] = "new"
    /\ IF file_raises[f] \/ file_chunks[f] = 0
       THEN /\ fpc' = [fpc EXCEPT ![f] = "done"]
            /\ UNCHANGED <<bstat, bret, sem_waiters>>
       ELSE /\ fpc' = [fpc EXCEPT ![f] = "gather"]
            /\ bstat' = [bstat EXCEPT ![f] = [b \in 1..NumBatches(f) |-> "queued"]]
            /\ bret' = [bret EXCEPT ![f] = [b \in 1..NumBatches(f) |-> 0]]
            /\ sem_waiters' = sem_waiters \o [b \in 1..NumBatches(f) |-> <<f, b>>]
    /\ UNCHANGED notIndexer
    /\ UNCHANGED <<file_raises, file_chunks, embed_faults, first_done,
                   sem_value, next_id, results, main_pc, all_ids,
                   all_embeddings, all_documents, all_metadatas, write_i,
                   added_count, collection>>

\* a semaphore of its own for every file
PermitFreePerFile(f) ==
    Cardinality({p \in InFlight : p[1] = f}) < MAX_CONCURRENT_EMBEDDINGS

\* line 110, async with semaphore: a permit of the one semaphore of line 256
\* is free; the tasks take their permits in the order they were created
PermitFree(f) == sem_value > 0

\* embed_batch lines 110-113: take a permit, send the request
Acquire(f, b) ==
    /\ Running
    /\ fpc[f] = "gather"
    /\ b \in DOMAIN bstat[f]
    /\ bstat[f][b] = "queued"
    /\ sem_waiters # <<>> /\ Head(sem_waiters) = <<f, b>>
    /\ PermitFree(f)
    /\ sem_value' = sem_value - 1
    /\ sem_waiters' = Tail(sem_waiters)
    /\ bstat' = [bstat EXCEPT ![f][b] = "inflight"]
    /\ UNCHANGED notIndexer
    /\ UNCHANGED <<file_raises, file_chunks, embed_faults, fpc, bret,
                   first_done, next_id, results, main_pc, all_ids,
                   all_embeddings, all_documents, all_metadatas, write_i,
                   added_count, collection>>

\* the permit stays taken when the call raised
PermitsLostOnRaise(kind) ==
    IF kind = "raise" THEN sem_value ELSE sem_value + 1

\* line 110: leaving async with gives the permit back, after the return of
\* line 119 and after the return of line 123
PermitsAfterEmbed(kind) == sem_value + 1

\* embed_batch lines 113-123: the call returns or raises, the task returns
\* the list or None and leaves the async with (the permit is released)
EmbedReturn(f, b) ==
    /\ Running
    /\ b \in DOMAIN bstat[f]
    /\ bstat[f][b] = "inflight"
    /\ \E kind \in embed_faults :
          /\ bstat' = [bstat EXCEPT ![f][b] =
                          IF kind = "raise" THEN "none" ELSE "ok"]
          /\ bret' = [bret EXCEPT ![f][b] =
                          ReturnedCount(BatchSize(f, b), kind)]
          /\ sem_value' = PermitsAfterEmbed(kind)
    /\ first_done' = [first_done EXCEPT ![f] = IF @ = 0 THEN b ELSE @]
    /\ UNCHANGED notIndexer
    /\ UNCHANGED <<file_raises, file_chunks, embed_faults, fpc, sem_waiters, next_id,
                   results, main_pc, all_ids, all_embeddings, all_documents,
                   all_metadatas, write_i, added_count, collection>>

\* the order in which the batches of f are listed when the batch that came
\* back first is put first
CompletionFirstOrder(f) ==
    IF first_done[f] = 0 THEN [b \in 1..NumBatches(f) |-> b]
    ELSE <<first_done[f]>> \o
         SelectSeq([b \in 1..NumBatches(f) |-> b], LAMBDA b : b # first_done[f])

\* results listed with the first batch to come back first
GatherOrderAsCompleted(f) == CompletionFirstOrder(f)

\* line 193, asyncio.gather: the results are listed in the order of the
\* tasks passed, batch 1 first
GatherOrder(f) == [b \in 1..NumBatches(f) |-> b]

\* a failed batch anywhere in the run
BatchFailedAnywhere(f) ==
    \E g \in Files : \E b \in DOMAIN bstat[g] : bstat[g][b] = "none"

\* lines 197-202: one of the file's own batches came back None
BatchFailed(f) == \E b \in DOMAIN bstat[f] : bstat[f][b] = "none"

\* lines 196-203: the lists of the batches joined in gather order
RECURSIVE JoinBatches(_, _)
JoinBatches(f, order) ==
    IF order = <<>> THEN <<>>
    ELSE BatchEmbeddings(f, Head(order)) \o JoinBatches(f, Tail(order))

all_embeddings_for_file(f) == JoinBatches(f, GatherOrder(f))

\* line 205
FileAccepted(f) ==
    /\ ~BatchFailed(f)
    /\ Len(all_embeddings_for_file(f)) = Len(all_chunks_for_file(f))

\* a file keeps the records of the batches that succeeded
RecordCountPartial(f) ==
    Min(Len(all_embeddings_for_file(f)), Len(all_chunks_for_file(f)))

\* lines 205-216: every chunk or none
RecordCount(f) == IF FileAccepted(f) THEN Len(all_chunks_for_file(f)) ELSE 0

\* the id is the position of the chunk in its file
IdsOfPositions(n) == [i \in 1..n |-> i]

\* line 208, str(uuid.uuid4()) in each pass of the loop of line 207: an id
\* of its own for each of the n chunks, one that no record made before has;
\* the ids are numbered as they are made
chunk_ids(n) == [i \in 1..n |-> next_id + i]

\* lines 207-214
NewRecords(f) ==
    LET embs == all_embeddings_for_file(f)
        docs == all_chunks_for_file(f)
        metas == all_metadata_for_file(f)
        ids == chunk_ids(RecordCount(f))
    IN  [i \in 1..RecordCount(f) |->
            [id |-> ids[i],
             embedding |-> embs[i],
             document |-> docs[i],
             metadata |-> metas[i]]]

\* process_md_file_async after the gather of line 193: lines 195-218
FinishFile(f) ==
    /\ Running
    /\ fpc[f] = "gather"
    /\ \A b \in DOMAIN bstat[f] : bstat[f][b] \in {"none", "ok"}
    /\ results' = [results EXCEPT ![f] = NewRecords(f)]
    /\ next_id' = next_id + RecordCount(f)
    /\ fpc' = [fpc EXCEPT ![f] = "done"]
    /\ UNCHANGED notIndexer
    /\ UNCHANGED <<file_raises, file_chunks, embed_faults, bstat, bret,
                   first_done, sem_value, sem_waiters, main_pc, all_ids, all_embeddings,
                   all_documents, all_metadatas, write_i, added_count,
                   collection>>

RECURSIVE Flatten(_)
Flatten(ss) == IF ss = <<>> THEN <<>> ELSE Head(ss) \o Flatten(Tail(ss))

\* what a run without failure over files of these sizes leaves in the
\* collection: one record per chunk, file by file
EarlierRun(sizes) ==
    LET recs == Flatten([f \in Files |->
                    [i \in 1..sizes[f] |-> <<ChunkText(f, i), ChunkMeta(f, i)>>]])
    IN  [k \in 1..Len(recs) |->
            [id |-> k, embedding |-> Emb(recs[k][1]),
             document |-> recs[k][1], metadata |-> recs[k][2]]]

\* a second run over the same unchanged files: the collection holds the
\* records of the first run, the ids made so far are used up
IndexerStartAgain ==
    /\ file_raises = [f \in Files |-> FALSE]
    /\ file_chunks \in [Files -> FileSizes]
    /\ embed_faults = {"ok", "raise"}
    /\ fpc = [f \in Files |-> "new"]
    /\ bstat = [f \in Files |-> <<>>]
    /\ bret = [f \in Files |-> <<>>]
    /\ first_done = [f \in Files |-> 0]
    /\ sem_value = MAX_CONCURRENT_EMBEDDINGS
    /\ sem_waiters = <<>>
    /\ results = [f \in Files |-> <<>>]
    /\ main_pc = "gather"
    /\ all_ids = <<>> /\ all_embeddings = <<>> /\ all_documents = <<>>
    /\ all_metadatas = <<>> /\ write_i = 0 /\ added_count = 0
    /\ collection = EarlierRun(file_chunks)
    /\ next_id = Len(collection)

\* the write starts as soon as one file task is done
SomeFileDone == \E f \in Files : fpc[f] = "done"

\* line 262: results_list = await asyncio.gather(*tasks) returns when every
\* file task has returned
AllFilesDone == \A f \in Files : fpc[f] = "done"

\* main_async lines 262-281: the gather returns, the four lists are filled;
\* the batch tasks and their results are gone with the file tasks' frames
Collect ==
    /\ Running
    /\ AllFilesDone
    /\ LET recs == Flatten([f \in Files |-> results[f]])
           n == Len(recs)
       IN  /\ all_ids' = [i \in 1..n |-> recs[i].id]
           /\ all_embeddings' = [i \in 1..n |-> recs[i].embedding]
           /\ all_documents' = [i \in 1..n |-> recs[i].document]
           /\ all_metadatas' = [i \in 1..n |-> recs[i].metadata]
           /\ main_pc' = IF n > 0 THEN "write" ELSE "finished"
    /\ write_i' = 0
    /\ added_count' = 0
    /\ bstat' = [f \in Files |-> <<>>]
    /\ bret' = [f \in Files |-> <<>>]
    /\ first_done' = [f \in Files |-> 0]
    /\ UNCHANGED notIndexer
    /\ UNCHANGED <<file_raises, file_chunks, embed_faults, fpc, sem_value,
                   sem_waiters, next_id, results, collection>>

total_chunks == Len(all_ids)

\* lines 288-297: one pass of the add loop, collection.add succeeding
AddBatch ==
    /\ main_pc = "write"
    /\ write_i < total_chunks
    /\ LET batch_end == Min(write_i + CHROMA_BATCH_SIZE, total_chunks)
           ids == PySlice(all_ids, write_i, batch_end)
           embs == PySlice(all_embeddings, write_i, batch_end)
           docs == PySlice(all_documents, write_i, batch_end)
           metas == PySlice(all_metadatas, write_i, batch_end)
       IN  /\ collection' = collection \o
                  [k \in 1..Len(ids) |->
                      [id |-> ids[k], embedding |-> embs[k],
                       document |-> docs[k], metadata |-> metas[k]]]
           /\ added_count' = added_count + (batch_end - write_i)
    /\ write_i' = write_i + CHROMA_BATCH_SIZE
    /\ UNCHANGED notIndexer
    /\ UNCHANGED <<file_raises, file_chunks, embed_faults, fpc, bstat, bret,
                   first_done, sem_value, sem_waiters, next_id, results, main_pc, all_ids,
                   all_embeddings, all_documents, all_metadatas>>

\* the batches written before the failure are taken back
CollectionRolledBack == SubSeq(collection, 1, Len(collection) - added_count)

\* lines 299-301: the handler only prints, what the earlier passes of the
\* loop added stays in the collection
CollectionAfterFailure == collection

\* lines 299-301: collection.add raises, the loop is left
AddFails ==
    /\ main_pc = "write"
    /\ write_i < total_chunks
    /\ main_pc' = "write_failed"
    /\ collection' = CollectionAfterFailure
    /\ UNCHANGED notIndexer
    /\ UNCHANGED <<file_raises, file_chunks, embed_faults, fpc, bstat, bret,
                   first_done, sem_value, sem_waiters, next_id, results, all_ids,
                   all_embeddings, all_documents, all_metadatas, write_i,
                   added_count>>

\* line 298: the loop is over
WriteDone ==
    /\ main_pc = "write"
    /\ write_i >= total_chunks
    /\ main_pc' = "finished"
    /\ UNCHANGED notIndexer
    /\ UNCHANGED <<file_raises, file_chunks, embed_faults, fpc, bstat, bret,
                   first_done, sem_value, sem_waiters, next_id, results, all_ids,
                   all_embeddings, all_documents, all_metadatas, write_i,
                   added_count, collection>>

IndexerNext ==
    \/ \E f \in Files : StartFile(f)
    \/ \E f \in Files : \E b \in BatchIds : Acquire(f, b)
    \/ \E f \in Files : \E b \in BatchIds : EmbedReturn(f, b)
    \/ \E f \in Files : FinishFile(f)
    \/ Collect
    \/ AddBatch
    \/ AddFails
    \/ WriteDone

(***************************************************************************)
(* create_exam_guide.py: one guide-building run.  Topic i of the topics    *)
(* file is Topic(i); a prompt and an answer carry the topic they were made *)
(* for.  The generation tasks take their first step in any order; the      *)
(* semaphore admits its waiters oldest first.                              *)
(***************************************************************************)
MAX_CONCURRENT_GENERATIONS == 5

MaxTopics == 3
MaxConcurrency == 2

\* the values of --concurrency tried: none given (the default), or 0..MaxConcurrency
Concurrencies == (0..MaxConcurrency) \cup {MAX_CONCURRENT_GENERATIONS}

Topic(i) == <<"topic", i>>

NoPrompt == <<"None">>

MaxHits == 2

\* two records of the collection as a query returns them, the document and
\* its metadata: one without descriptions (a blank one among them), one
\* with two
HitPlain ==
    [doc |-> "d1", source_page |-> 1, visual_descriptions |-> "",
     table_descriptions |-> " ", equation_descriptions |-> ""]
HitDescribed ==
    [doc |-> "d2", source_page |-> 2, visual_descriptions |-> "v",
     table_descriptions |-> "", equation_descriptions |-> "e"]
HitKinds == {HitPlain, HitDescribed}

\* what query_chroma returns: None, or the records found in rank order
QueryFailed == [failed |-> TRUE, hits |-> <<>>]
QueryReturned(hits) == [failed |-> FALSE, hits |-> hits]

\* lines 101-109: the descriptions of the metadata that are not blank
DescriptionsOf(meta) ==
    SelectSeq(<< <<"Visual Elements Description", meta.visual_descriptions>>,
                 <<"Table Content Summary", meta.table_descriptions>>,
                 <<"Key Equations", meta.equation_descriptions>> >>,
              LAMBDA d : d[2] \notin {"", " "})

\* lines 99-110: the block of the i-th record returned
ContextChunk(i, hit) ==
    [chunk |-> i, source_page |-> hit.source_page, text |-> hit.doc,
     descriptions |-> DescriptionsOf(hit)]

\* only a failed query counts as no result
NoResultsOnlyOnFailure(res) == res.failed

\* line 94: not results or not results.get('ids', [[]])[0]
NoResults(res) == res.failed \/ res.hits = <<>>

\* lines 92-111 (and lines 83-113 of rag_exam_solver.py, which differ in
\* the two fixed strings): the sentinel, or the title and one block per
\* record returned
FormatContext(res, sentinel, title) ==
    IF NoResults(res)
    THEN [title |-> sentinel, chunks |-> <<>>]
    ELSE [title |-> title,
          chunks |-> [i \in 1..Len(res.hits) |->
                         ContextChunk(i, res.hits[i])]]

\* lines 92-117: format_retrieved_context
format_retrieved_context(res) ==
    FormatContext(res,
                  "No relevant context found in the local knowledge base.",
                  "Retrieved Context from Local Study Material:")

\* lines 136-164: the prompt names the topic and carries the context
construct_augmented_rag_prompt(topic, context) == <<"prompt", topic, context>>

\* line 258: the message of the dummy task of a topic that was not embedded
error_task(t) ==
    <<"## ", t, "*Error: Could not embed this topic query. Skipping.*">>

\* lines 169-203: what generate_guide_explanation_async returns, by how the
\* generation call ended
GenOutcomes == {"text", "no_text", "raise"}
generate_guide_explanation_output(prompt, outcome) ==
    CASE outcome = "text" -> <<"response.text", prompt>>
      [] outcome = "no_text" ->
            <<"*Error: Could not generate explanation for this topic due to response format issues.*">>
      [] OTHER -> <<"*Error generating explanation for this topic: ", "e", "*">>

GuideIdle ==
    /\ topics = <<>>
    /\ max_concurrent_generations = MAX_CONCURRENT_GENERATIONS
    /\ gsem_value = 0
    /\ gsem_waiters = <<>>
    /\ topic_data_for_generation = <<>>
    /\ gtask = <<>>
    /\ gout = <<>>
    /\ completed = <<>>
    /\ explanations = <<>>
    /\ final_guide_content = <<>>
    /\ guide_file = <<>>
    /\ embed_failed = {}
    /\ chroma_queries = {}
    /\ gen_raised = {}
    /\ guide_pc = "idle"

\* lines 277-291 and 216-224: the arguments are parsed, the global limit is
\* set from --concurrency, the topics are loaded
GuideStart ==
    /\ topics \in {[i \in 1..n |-> Topic(i)] : n \in 0..MaxTopics}
    /\ max_concurrent_generations \in Concurrencies
    /\ gsem_value = 0
    /\ gsem_waiters = <<>>
    /\ topic_data_for_generation = <<>>
    /\ gtask = <<>>
    /\ gout = <<>>
    /\ completed = <<>>
    /\ explanations = <<>>
    /\ final_guide_content = <<>>
    /\ guide_file = <<>>
    /\ embed_failed = {}
    /\ chroma_queries = {}
    /\ gen_raised = {}
    /\ guide_pc = "loaded"

\* line 222: no topic was loaded, the run exits
NoTopics ==
    /\ guide_pc = "loaded"
    /\ topics = <<>>
    /\ guide_pc' = "exit"
    /\ UNCHANGED <<topics, max_concurrent_generations, gsem_value,
                   gsem_waiters, topic_data_for_generation, gtask, gout,
                   completed, explanations, final_guide_content, guide_file>>
    /\ UNCHANGED <<embed_failed, chroma_queries, gen_raised>>
    /\ UNCHANGED notGuide

\* lines 225-233: the collection is connected, the semaphore is made
MakeSemaphore ==
    /\ guide_pc = "loaded"
    /\ topics # <<>>
    /\ gsem_value' = max_concurrent_generations
    /\ guide_pc' = "prep"
    /\ UNCHANGED <<topics, max_concurrent_generations, gsem_waiters,
                   topic_data_for_generation, gtask, gout, completed,
                   explanations, final_guide_content, guide_file>>
    /\ UNCHANGED <<embed_failed, chroma_queries, gen_raised>>
    /\ UNCHANGED notGuide

\* the failed embedding is passed on to the query
EmbeddingNeverMissing(query_embedding) == FALSE

\* line 240: query_embedding is None
EmbeddingMissing(query_embedding) == query_embedding = "None"

\* lines 75-90: query_chroma returns None without a query when it is given
\* no embedding, else the hits, an empty result, or None after an exception
QueryChromaResults(query_embedding) ==
    IF query_embedding = "None" THEN {QueryFailed}
    ELSE {QueryReturned(<<HitDescribed, HitPlain>>), QueryReturned(<<>>),
          QueryFailed}

\* lines 237-247: one iteration of the sequential preparation loop; the
\* embedding comes back or not (lines 61-73)
PrepTopic ==
    /\ guide_pc = "prep"
    /\ Len(topic_data_for_generation) < Len(topics)
    /\ LET i == Len(topic_data_for_generation) + 1
           topic == topics[i]
       IN
       \E query_embedding \in {"embedding", "None"} :
         /\ embed_failed' = IF query_embedding = "None"
                            THEN embed_failed \cup {i} ELSE embed_failed
         /\ IF EmbeddingMissing(query_embedding)
            THEN /\ topic_data_for_generation' =
                        Append(topic_data_for_generation, <<topic, NoPrompt>>)
                 /\ UNCHANGED chroma_queries
            ELSE /\ \E retrieved_results \in QueryChromaResults(query_embedding) :
                      topic_data_for_generation' =
                          Append(topic_data_for_generation,
                                 <<topic,
                                   construct_augmented_rag_prompt(topic,
                                       format_retrieved_context(retrieved_results))>>)
                 /\ chroma_queries' =
                        IF query_embedding = "None"
                        THEN chroma_queries ELSE chroma_queries \cup {i}
    /\ UNCHANGED <<topics, max_concurrent_generations, gsem_value,
                   gsem_waiters, gtask, gout, completed, explanations,
                   final_guide_content, guide_file, guide_pc, gen_raised>>
    /\ UNCHANGED notGuide

\* the task loop runs beside the preparation loop
PreparationOverlapped == TRUE

\* lines 237-247: the preparation loop has run over every topic, each of its
\* iterations awaited in turn, when control reaches line 249
PreparationDone == Len(topic_data_for_generation) = Len(topics)

\* lines 255-264: one task per entry of topic_data_for_generation, in
\* order, handed to asyncio.gather
CreateTasks ==
    /\ guide_pc = "prep"
    /\ PreparationDone
    /\ gtask' = [i \in DOMAIN topic_data_for_generation |-> "created"]
    /\ gout' = [i \in DOMAIN topic_data_for_generation |-> <<>>]
    /\ guide_pc' = "gather"
    /\ UNCHANGED <<topics, max_concurrent_generations, gsem_value,
                   gsem_waiters, topic_data_for_generation, completed,
                   explanations, final_guide_content, guide_file>>
    /\ UNCHANGED <<embed_failed, chroma_queries, gen_raised>>
    /\ UNCHANGED notGuide

\* the first step of task i: the dummy task returns its message (line 258),
\* a generation task asks for a permit (line 169)
TaskStart(i) ==
    /\ guide_pc = "gather"
    /\ i \in DOMAIN gtask
    /\ gtask[i] = "created"
    /\ IF topic_data_for_generation[i][2] = NoPrompt
       THEN /\ gtask' = [gtask EXCEPT ![i] = "done"]
            /\ gout' = [gout EXCEPT ![i] = error_task(topic_data_for_generation[i][1])]
            /\ completed' = Append(completed, i)
            /\ UNCHANGED gsem_waiters
       ELSE /\ gtask' = [gtask EXCEPT ![i] = "waiting"]
            /\ gsem_waiters' = Append(gsem_waiters, i)
            /\ UNCHANGED <<gout, completed>>
    /\ UNCHANGED <<topics, max_concurrent_generations, gsem_value,
                   topic_data_for_generation, explanations,
                   final_guide_content, guide_file, guide_pc>>
    /\ UNCHANGED <<embed_failed, chroma_queries, gen_raised>>
    /\ UNCHANGED notGuide

\* the generation calls run without asking the semaphore
GenPermitIgnored == TRUE

\* line 169: async with semaphore, a permit is free
GenPermitFree == gsem_value > 0

\* the generation calls in flight
GenInFlight == {i \in DOMAIN gtask : gtask[i] = "inflight"}

\* lines 169-177: the oldest waiter takes a permit and sends its call
GenAcquire(i) ==
    /\ guide_pc = "gather"
    /\ gsem_waiters # <<>>
    /\ Head(gsem_waiters) = i
    /\ GenPermitFree
    /\ gsem_value' = gsem_value - 1
    /\ gsem_waiters' = Tail(gsem_waiters)
    /\ gtask' = [gtask EXCEPT ![i] = "inflight"]
    /\ UNCHANGED <<topics, max_concurrent_generations,
                   topic_data_for_generation, gout, completed, explanations,
                   final_guide_content, guide_file, guide_pc>>
    /\ UNCHANGED <<embed_failed, chroma_queries, gen_raised>>
    /\ UNCHANGED notGuide

\* the permit goes back only when the call succeeded
PermitsKeptOnFailure(outcome) ==
    IF outcome = "raise" THEN gsem_value ELSE gsem_value + 1

\* line 169: leaving async with releases the permit, however the call ended
PermitsAfterCall(outcome) == gsem_value + 1

\* lines 177-203: the call of task i ends, the task returns its text or an
\* error message and the permit goes back
GenReturn(i) ==
    /\ guide_pc = "gather"
    /\ i \in DOMAIN gtask
    /\ gtask[i] = "inflight"
    /\ \E outcome \in GenOutcomes :
         /\ gout' = [gout EXCEPT ![i] =
                        generate_guide_explanation_output(
                            topic_data_for_generation[i][2], outcome)]
         /\ gen_raised' = IF outcome = "raise"
                          THEN gen_raised \cup {i} ELSE gen_raised
         /\ gsem_value' = PermitsAfterCall(outcome)
    /\ gtask' = [gtask EXCEPT ![i] = "done"]
    /\ completed' = Append(completed, i)
    /\ UNCHANGED <<topics, max_concurrent_generations, gsem_waiters,
                   topic_data_for_generation, explanations,
                   final_guide_content, guide_file, guide_pc>>
    /\ UNCHANGED <<embed_failed, chroma_queries>>
    /\ UNCHANGED notGuide

\* the results are listed as the tasks finished
GatherAsCompleted == [k \in 1..Len(completed) |-> gout[completed[k]]]

\* line 264: asyncio.gather lists the results in the order of its arguments
GatherResults == [i \in 1..Len(gtask) |-> gout[i]]

\* lines 270-271: the header, then one section per explanation
GuideSection(exp) == <<exp, "---">>
GuideHeader == <<"# Exam Study Guide">>
guide_sections(exps) ==
    <<GuideHeader>> \o [i \in 1..Len(exps) |-> GuideSection(exps[i])]

\* lines 264-273: every task is done, the gather returns and the guide is
\* compiled
GatherDone ==
    /\ guide_pc = "gather"
    /\ \A i \in DOMAIN gtask : gtask[i] = "done"
    /\ explanations' = GatherResults
    /\ final_guide_content' = guide_sections(GatherResults)
    /\ guide_pc' = "compiled"
    /\ UNCHANGED <<topics, max_concurrent_generations, gsem_value,
                   gsem_waiters, topic_data_for_generation, gtask, gout,
                   completed, guide_file>>
    /\ UNCHANGED <<embed_failed, chroma_queries, gen_raised>>
    /\ UNCHANGED notGuide

\* lines 206-213, 274: save_guide writes the file, or reports the error
save_guide ==
    /\ guide_pc = "compiled"
    /\ \E written \in BOOLEAN :
         /\ guide_file' = IF written THEN final_guide_content ELSE guide_file
         /\ guide_pc' = IF written THEN "saved" ELSE "save_failed"
    /\ completed' = <<>>
    /\ UNCHANGED <<topics, max_concurrent_generations, gsem_value,
                   gsem_waiters, topic_data_for_generation, gtask, gout,
                   explanations, final_guide_content>>
    /\ UNCHANGED <<embed_failed, chroma_queries, gen_raised>>
    /\ UNCHANGED notGuide

GuideNext ==
    \/ NoTopics
    \/ MakeSemaphore
    \/ PrepTopic
    \/ CreateTasks
    \/ \E i \in 1..MaxTopics : TaskStart(i)
    \/ \E i \in 1..MaxTopics : GenAcquire(i)
    \/ \E i \in 1..MaxTopics : GenReturn(i)
    \/ GatherDone
    \/ save_guide

(***************************************************************************)
(* indexer_vision.py, parse_vision_markdown_page: one call.  A page is the *)
(* sequence of its lines (the text between two newlines); the regular      *)
(* expressions of lines 82 and 99-100 are rendered on lines: "\n#### "     *)
(* is the start of a level-4 heading line that is not the first line, and  *)
(* "\s*\n" after a heading eats the newline of the heading line and of     *)
(* every blank line that follows it.                                       *)
(***************************************************************************)
MaxPageLines == 4

VisualHeading == "#### Visual Elements Description"
TableHeading == "#### Table Content"
EquationHeading == "#### Key Equations"
OtherHeading == "#### Notes"

\* lines that start with "#### "
H4Lines == {VisualHeading, TableHeading, EquationHeading, OtherHeading}

\* the lines a page is made of: text, a blank line, the headings, and a
\* text line that holds the document name
NameLine == "DocName lecture"
PageLines == {"text.", "", NameLine} \cup H4Lines

PageContents == SeqsUpTo(PageLines, MaxPageLines)

\* the smallest member of a set of indices, 0 when there is none
FirstOf(S) == IF S = {} THEN 0 ELSE CHOOSE i \in S : \A j \in S : i <= j

\* the lines of ls from position a to position b
Lines(ls, a, b) == IF a > b THEN <<>> ELSE SubSeq(ls, a, b)

\* str.strip() on a text given by its lines: the blank lines at both ends go
RECURSIVE StripLeft(_)
StripLeft(ls) ==
    IF ls = <<>> THEN <<>>
    ELSE IF Head(ls) = "" THEN StripLeft(Tail(ls)) ELSE ls

RECURSIVE StripRight(_)
StripRight(ls) ==
    IF ls = <<>> THEN <<>>
    ELSE IF ls[Len(ls)] = "" THEN StripRight(Lines(ls, 1, Len(ls) - 1)) ELSE ls

StripLines(ls) == StripRight(StripLeft(ls))

\* the first position past `from` where "\n#### " starts a line, or one past
\* the end
NextH4(ls, from) ==
    LET k == FirstOf({i \in DOMAIN ls : i > from /\ ls[i] \in H4Lines})
    IN  IF k = 0 THEN Len(ls) + 1 ELSE k

\* lines 82-84: re.search(r'(.*?)(?=\n#### |\Z)'), stripped: the text before
\* the first heading line that is not the first line of the page
main_text_of(ls) == StripLines(Lines(ls, 1, NextH4(ls, 1) - 1))

\* lines 99-100: "\n#### <heading>\s*\n" matches the first line equal to the
\* heading that is neither the first nor the last line of the page
HeadingAt(ls, heading) ==
    FirstOf({i \in DOMAIN ls : i > 1 /\ i < Len(ls) /\ ls[i] = heading})

\* lines 99: "\s*\n" is greedy, the group starts at the first line after the
\* heading that is not blank (one past the end when there is none)
BodyStart(ls, i) ==
    LET j == FirstOf({k \in DOMAIN ls : k > i /\ ls[k] # ""})
    IN  IF j = 0 THEN Len(ls) + 1 ELSE j

\* lines 99-102: the group runs to the next "\n#### " after its start, or to
\* the end of the page, and is stripped; "" when the heading is not found
section_of(ls, heading) ==
    LET i == HeadingAt(ls, heading) IN
    IF i = 0 THEN <<>>
    ELSE LET j == BodyStart(ls, i)
         IN  StripLines(Lines(ls, j, NextH4(ls, j) - 1))

\* lines 91-95: headings_map, in the order of the loop of line 97
headings_map ==
    << <<VisualHeading, "visual_descriptions">>,
       <<TableHeading, "table_descriptions">>,
       <<EquationHeading, "equation_descriptions">> >>

\* lines 73-78
EmptyData ==
    [main_text |-> <<>>, visual_descriptions |-> <<>>,
     table_descriptions |-> <<>>, equation_descriptions |-> <<>>]

\* lines 71-106 in one piece
parse_vision_markdown_page(ls) ==
    [main_text |-> main_text_of(ls),
     visual_descriptions |-> section_of(ls, VisualHeading),
     table_descriptions |-> section_of(ls, TableHeading),
     equation_descriptions |-> section_of(ls, EquationHeading)]

ParseIdle ==
    /\ page_content = <<>>
    /\ data = EmptyData
    /\ heading_i = 0
    /\ parse_pc = "idle"

\* the call: lines 71-78
ParseStart ==
    /\ page_content \in PageContents
    /\ data = EmptyData
    /\ heading_i = 0
    /\ parse_pc = "main"

\* lines 82-87
ParseMainText ==
    /\ parse_pc = "main"
    /\ data' = [data EXCEPT !.main_text = main_text_of(page_content)]
    /\ heading_i' = 1
    /\ parse_pc' = "headings"
    /\ UNCHANGED page_content
    /\ UNCHANGED notParse

\* lines 97-102: one iteration of the loop over headings_map
ParseHeading ==
    /\ parse_pc = "headings"
    /\ heading_i <= Len(headings_map)
    /\ LET heading_text == headings_map[heading_i][1]
           key == headings_map[heading_i][2]
       IN  data' = IF HeadingAt(page_content, heading_text) # 0
                   THEN [data EXCEPT ![key] = section_of(page_content, heading_text)]
                   ELSE data
    /\ heading_i' = heading_i + 1
    /\ UNCHANGED <<page_content, parse_pc>>
    /\ UNCHANGED notParse

\* line 106
ParseReturn ==
    /\ parse_pc = "headings"
    /\ heading_i > Len(headings_map)
    /\ parse_pc' = "done"
    /\ UNCHANGED <<page_content, data, heading_i>>
    /\ UNCHANGED notParse

ParseNext == ParseMainText \/ ParseHeading \/ ParseReturn

(***************************************************************************)
(* indexer_vision.py, process_md_file_async lines 129-183: the segments of *)
(* one file are numbered, parsed and chunked.  A chunk is named by the     *)
(* text it is cut from and its window; the texts a file of this size can   *)
(* hold have no window of whitespace only, so the filter of line 68 keeps  *)
(* every window.                                                           *)
(***************************************************************************)
CHUNK_SIZE == 1000
CHUNK_OVERLAP == 200

MaxSegments == 3

\* the document name inferred from the file name (line 129)
pdf_name == "DocName"

\* a line as long as the window
LongLine == "long line of CHUNK_SIZE characters"

\* len() of a line
LineLen(l) ==
    CASE l = "" -> 0
      [] l = "text." -> 5
      [] l = NameLine -> 15
      [] l = VisualHeading -> 32
      [] l = TableHeading -> 18
      [] l = EquationHeading -> 18
      [] l = OtherHeading -> 10
      [] l = LongLine -> CHUNK_SIZE
      [] OTHER -> 1

\* len() of a text given by its lines, the newlines between them counted
RECURSIVE TextLen(_)
TextLen(ls) ==
    IF ls = <<>> THEN 0
    ELSE IF Len(ls) = 1 THEN LineLen(ls[1])
    ELSE LineLen(Head(ls)) + 1 + TextLen(Tail(ls))

\* the segments re.split (line 136) can hand to the loop: a blank one, a
\* title line, a short page, a page whose first line holds the document
\* name, pages with a description heading after text, in the first line, or
\* after a blank first line, and a page longer than the window
SegmentKinds ==
    { <<"">>,
      <<NameLine>>,
      <<"text.">>,
      <<NameLine, "text.">>,
      <<"text.", EquationHeading, "text.">>,
      <<EquationHeading, "text.">>,
      <<"", VisualHeading, "text.">>,
      <<LongLine, "text.">> }

MdFiles == SeqsUpTo(SegmentKinds, MaxSegments) \ {<<>>}

\* line 145: page_content.strip() is not empty
NonBlank(seg) == \E i \in DOMAIN seg : seg[i] # ""

\* line 147: pdf_name in page_content.splitlines()[0], for the segment at
\* any index
is_initial_chunk(seg, index) == seg # <<>> /\ seg[1] = NameLine

\* line 154: current_page_num if current_page_num > 0 else 1
page_num_for_meta(n) == IF n > 0 THEN n ELSE 1

\* recursive_character_text_splitter (lines 45-68) with the default window
\* and overlap, on a text of n characters: the windows [start, end) of the
\* chunks, in order
RECURSIVE SplitWindows(_, _)
SplitWindows(n, start) ==
    IF start >= n THEN <<>>
    ELSE LET e == Min(start + CHUNK_SIZE, n)
             s == start + CHUNK_SIZE - CHUNK_OVERLAP
         IN  <<<<start, e>>>> \o
             (IF s >= e
              THEN IF s < n THEN SplitWindows(n, e) ELSE <<>>
              ELSE SplitWindows(n, s))

ChunkWindows(n) == IF n <= CHUNK_SIZE THEN <<<<0, n>>>> ELSE SplitWindows(n, 0)

\* text[start:end]
ChunkOf(txt, w) == [of |-> txt, start |-> w[1], end |-> w[2]]

\* lines 161-166
PageEntry(parsed, num) ==
    [main_text |-> parsed.main_text,
     page_num |-> num,
     descriptions |-> [visual |-> parsed.visual_descriptions,
                       table |-> parsed.table_descriptions,
                       equation |-> parsed.equation_descriptions]]

\* lines 176-182
ChunkMetadata(entry) ==
    [source_file |-> pdf_name,
     source_page |-> entry.page_num,
     visual_descriptions |-> entry.descriptions.visual,
     table_descriptions |-> entry.descriptions.table,
     equation_descriptions |-> entry.descriptions.equation]

PagesIdle ==
    /\ pages = <<>>
    /\ page_i = 0
    /\ current_page_num = 0
    /\ assigned_page = <<>>
    /\ page_data_list = <<>>
    /\ chunk_page_i = 0
    /\ md_chunks = <<>>
    /\ md_metadata = <<>>
    /\ pages_pc = "idle"

\* lines 131-142: the file is read and split on the page comments
PagesStart ==
    /\ pages \in MdFiles
    /\ page_i = 0
    /\ current_page_num = 0
    /\ assigned_page = <<>>
    /\ page_data_list = <<>>
    /\ chunk_page_i = 0
    /\ md_chunks = <<>>
    /\ md_metadata = <<>>
    /\ pages_pc = "pages"

\* lines 144-166: one iteration of the loop over the segments;
\* assigned_page keeps page_num_for_meta of the segment (0: blank, skipped)
NumberPage ==
    /\ pages_pc = "pages"
    /\ page_i < Len(pages)
    /\ LET page == pages[page_i + 1]
           num == IF is_initial_chunk(page, page_i + 1)
                  THEN current_page_num ELSE current_page_num + 1
           parsed == parse_vision_markdown_page(page)
       IN  IF NonBlank(page)
           THEN /\ current_page_num' = num
                /\ assigned_page' = Append(assigned_page, page_num_for_meta(num))
                /\ page_data_list' =
                       IF parsed.main_text # <<>>
                       THEN Append(page_data_list,
                                   PageEntry(parsed, page_num_for_meta(num)))
                       ELSE page_data_list
           ELSE /\ assigned_page' = Append(assigned_page, 0)
                /\ UNCHANGED <<current_page_num, page_data_list>>
    /\ page_i' = page_i + 1
    /\ UNCHANGED <<pages, chunk_page_i, md_chunks, md_metadata, pages_pc>>
    /\ UNCHANGED notPages

\* lines 169-170: the first loop is over, the two lists are made
BeginChunking ==
    /\ pages_pc = "pages"
    /\ page_i = Len(pages)
    /\ md_chunks' = <<>>
    /\ md_metadata' = <<>>
    /\ pages_pc' = "chunks"
    /\ UNCHANGED <<pages, page_i, current_page_num, assigned_page,
                   page_data_list, chunk_page_i>>
    /\ UNCHANGED notPages

\* lines 172-183: one iteration of the loop over page_data_list
ChunkPage ==
    /\ pages_pc = "chunks"
    /\ chunk_page_i < Len(page_data_list)
    /\ LET entry == page_data_list[chunk_page_i + 1]
           ws == ChunkWindows(TextLen(entry.main_text))
       IN  /\ md_chunks' = md_chunks \o
                  [k \in 1..Len(ws) |-> ChunkOf(entry.main_text, ws[k])]
           /\ md_metadata' = md_metadata \o
                  [k \in 1..Len(ws) |-> ChunkMetadata(entry)]
    /\ chunk_page_i' = chunk_page_i + 1
    /\ UNCHANGED <<pages, page_i, current_page_num, assigned_page,
                   page_data_list, pages_pc>>
    /\ UNCHANGED notPages

\* line 186: both lists are complete
ChunkingDone ==
    /\ pages_pc = "chunks"
    /\ chunk_page_i = Len(page_data_list)
    /\ pages_pc' = "done"
    /\ UNCHANGED <<pages, page_i, current_page_num, assigned_page,
                   page_data_list, chunk_page_i, md_chunks, md_metadata>>
    /\ UNCHANGED notPages

PagesNext == NumberPage \/ BeginChunking \/ ChunkPage \/ ChunkingDone

(***************************************************************************)
(* rag_exam_solver.py: one run of the single-query solver, lines 207-252.  *)
(***************************************************************************)
\* the queries tried on the command line
Queries == {"q1", "q2", "q3"}

SolverNoContext ==
    [title |-> "No relevant context found in the knowledge base.",
     chunks |-> <<>>]

\* no context formatted yet
NoContextYet == [title |-> "", chunks |-> <<>>]

\* lines 83-113: format_retrieved_context of the solver
solver_format_retrieved_context(res) ==
    FormatContext(res, SolverNoContext.title,
                  "Retrieved Context from Study Material:")

\* the first n records of a ranking
FirstHits(ranking, n) ==
    SubSeq(ranking, 1, IF n < Len(ranking) THEN n ELSE Len(ranking))

\* lines 116-141
construct_rag_prompt(exam_query, context) == <<"prompt", exam_query, context>>

\* lines 143-180: what generate_explanation returns, by how the call ended
generate_explanation(prompt, outcome) ==
    CASE outcome = "text" -> <<"response.text", prompt>>
      [] outcome = "no_text" ->
            <<"Error: Could not extract explanation from the response.">>
      [] OTHER -> <<"Error generating explanation: ", "e">>

SolverIdle ==
    /\ query = "" /\ no_save = FALSE
    /\ n_results = 0 /\ ranked_store = <<>>
    /\ embed_outcome = "none" /\ solver_embedding = "none"
    /\ solver_results = QueryFailed /\ formatted_context = NoContextYet
    /\ rag_prompt = <<>> /\ explanation = <<>>
    /\ output_json = <<>>
    /\ solver_pc = "idle"

\* lines 207-222: the arguments are parsed, the API is configured, the
\* collection is connected
SolverStart ==
    /\ query \in Queries /\ no_save \in BOOLEAN
    /\ n_results \in 0..MaxHits
    /\ ranked_store \in SeqsUpTo(HitKinds, MaxHits)
    /\ embed_outcome = "none" /\ solver_embedding = "none"
    /\ solver_results = QueryFailed /\ formatted_context = NoContextYet
    /\ rag_prompt = <<>> /\ explanation = <<>>
    /\ output_json = <<>>
    /\ solver_pc = "embed"

\* lines 53-66 and 225: embed_query returns the embedding, or prints the
\* error and calls sys.exit(1)
EmbedQuery ==
    /\ solver_pc = "embed"
    /\ \E ok \in BOOLEAN :
         /\ embed_outcome' = IF ok THEN "ok" ELSE "failed"
         /\ solver_embedding' = IF ok THEN "embedding" ELSE solver_embedding
         /\ solver_pc' = IF ok THEN "query" ELSE "exit_1"
    /\ UNCHANGED <<n_results, ranked_store>>
    /\ UNCHANGED <<query, no_save, solver_results, formatted_context,
                   rag_prompt, explanation, output_json>>
    /\ UNCHANGED notSolver

\* lines 68-81 and 228: query_chroma returns the n_results best records of
\* the collection (none for an empty collection or for n_results = 0), or
\* None after an exception
SolverQueryChroma ==
    /\ solver_pc = "query"
    /\ solver_results' \in
           {QueryReturned(FirstHits(ranked_store, n_results)), QueryFailed}
    /\ solver_pc' = "format"
    /\ UNCHANGED <<n_results, ranked_store>>
    /\ UNCHANGED <<query, no_save, embed_outcome, solver_embedding,
                   formatted_context, rag_prompt, explanation, output_json>>
    /\ UNCHANGED notSolver

\* lines 231-234: the context is formatted and the prompt built
SolverBuildPrompt ==
    /\ solver_pc = "format"
    /\ formatted_context' = solver_format_retrieved_context(solver_results)
    /\ rag_prompt' = construct_rag_prompt(
                         query, solver_format_retrieved_context(solver_results))
    /\ solver_pc' = "generate"
    /\ UNCHANGED <<n_results, ranked_store>>
    /\ UNCHANGED <<query, no_save, embed_outcome, solver_embedding,
                   solver_results, explanation, output_json>>
    /\ UNCHANGED notSolver

\* line 237
GenerateExplanation ==
    /\ solver_pc = "generate"
    /\ \E outcome \in GenOutcomes :
         explanation' = generate_explanation(rag_prompt, outcome)
    /\ solver_pc' = "output"
    /\ UNCHANGED <<n_results, ranked_store>>
    /\ UNCHANGED <<query, no_save, embed_outcome, solver_embedding,
                   solver_results, formatted_context, rag_prompt,
                   output_json>>
    /\ UNCHANGED notSolver

\* lines 240-252 with save_output (182-204): the explanation is printed, or
\* the JSON file is written, or writing it fails and the error is printed
SolverOutput ==
    /\ solver_pc = "output"
    /\ \E written \in BOOLEAN :
         output_json' =
             IF ~no_save /\ written
             THEN [query |-> query, retrieved_context |-> formatted_context,
                   generated_explanation |-> explanation]
             ELSE output_json
    /\ solver_pc' = "finished"
    /\ UNCHANGED <<n_results, ranked_store>>
    /\ UNCHANGED <<query, no_save, embed_outcome, solver_embedding,
                   solver_results, formatted_context, rag_prompt,
                   explanation>>
    /\ UNCHANGED notSolver

SolverNext ==
    \/ EmbedQuery
    \/ SolverQueryChroma
    \/ SolverBuildPrompt
    \/ GenerateExplanation
    \/ SolverOutput

(***************************************************************************)
(* extract_exam_topics.py: one run.  A reply of the model is the sequence  *)
(* of its characters; a topic is the sequence of the characters of one     *)
(* trimmed line.  What becomes of each summary file (it cannot be read, it *)
(* is blank, the call raises, the model replies) and the order in which    *)
(* rglob lists the files are fixed when the run starts.                    *)
(***************************************************************************)
MaxReplyLen == 3

ExamFiles == {"exam1.md", "exam2.md"}

NoExamDir == <<"missing">>
NoFile == <<"no file">>

ReplyChars == {"a", "b", " ", "\n"}
Replies == SeqsUpTo(ReplyChars, MaxReplyLen)

\* what happens to one summary file: lines 100-101 raise, line 103 finds it
\* blank, line 50 raises, or line 50 returns the reply
FileOutcomes ==
    {<<"unreadable">>, <<"blank">>, <<"raise">>}
        \cup {<<"reply", r>> : r \in Replies}

\* the orders in which rglob can list the files of a set
ListingsOf(S) ==
    {s \in SeqsUpTo(S, Cardinality(S)) :
        Len(s) = Cardinality(S) /\ \A i, j \in DOMAIN s : i # j => s[i] # s[j]}

IsWhitespace(c) == c \in {" ", "\n"}

\* str.splitlines on line feeds: the text between them, and no empty last
\* line after a final line feed
RECURSIVE splitlines(_)
splitlines(s) ==
    IF s = <<>> THEN <<>>
    ELSE IF \E k \in DOMAIN s : s[k] = "\n"
         THEN LET k == CHOOSE k \in DOMAIN s :
                         s[k] = "\n" /\ \A m \in 1..(k - 1) : s[m] # "\n"
              IN <<SubSeq(s, 1, k - 1)>> \o splitlines(SubSeq(s, k + 1, Len(s)))
         ELSE <<s>>

RECURSIVE lstrip(_)
lstrip(s) ==
    IF s # <<>> /\ IsWhitespace(Head(s)) THEN lstrip(Tail(s)) ELSE s

RECURSIVE rstrip(_)
rstrip(s) ==
    IF s # <<>> /\ IsWhitespace(s[Len(s)]) THEN rstrip(SubSeq(s, 1, Len(s) - 1))
    ELSE s

\* the line is taken as it came
keep_line(s) == s

\* str.strip of lines 52 and 103
strip(s) == rstrip(lstrip(s))

\* line 52: the stripped lines of the reply that are not empty, in order
StrippedLines(r) ==
    LET ls == splitlines(r)
        kept == SelectSeq(ls, LAMBDA l : strip(l) # <<>>)
    IN [i \in DOMAIN kept |-> strip(kept[i])]

\* lines 49-57: extract_topics_from_summary, [] when the call raised
extract_topics_from_summary(outcome) ==
    IF outcome[1] = "reply" THEN StrippedLines(outcome[2]) ELSE <<>>

\* the code points of the characters
CharCode(c) ==
    CASE c = "\n" -> 10
      [] c = " " -> 32
      [] c = "a" -> 97
      [] OTHER -> 98

\* the order of Python strings: by code point, a prefix first
RECURSIVE LexLess(_, _)
LexLess(s, t) ==
    IF t = <<>> THEN FALSE
    ELSE IF s = <<>> THEN TRUE
    ELSE IF Head(s) = Head(t) THEN LexLess(Tail(s), Tail(t))
    ELSE CharCode(Head(s)) < CharCode(Head(t))

\* line 135: sorted(list(unique_topics))
RECURSIVE sorted(_)
sorted(S) ==
    IF S = {} THEN <<>>
    ELSE LET m == CHOOSE x \in S : \A y \in S \ {x} : LexLess(x, y)
         IN <<m>> \o sorted(S \ {m})

ElementsOf(s) == {s[i] : i \in DOMAIN s}

ExtractIdle ==
    /\ exam_dir = NoExamDir
    /\ file_outcome = <<>>
    /\ md_files = <<>>
    /\ exam_i = 0
    /\ unique_topics = {}
    /\ topic_list = <<>>
    /\ exam_out = NoFile
    /\ extract_pc = "idle"

\* lines 60-79: the arguments are parsed, the API and the model are set up
ExtractStart ==
    /\ exam_dir \in {NoExamDir}
           \cup UNION {ListingsOf(S) : S \in SUBSET ExamFiles}
    /\ file_outcome \in [ElementsOf(IF exam_dir = NoExamDir THEN <<>> ELSE exam_dir)
                            -> FileOutcomes]
    /\ md_files = <<>>
    /\ exam_i = 0
    /\ unique_topics = {}
    /\ topic_list = <<>>
    /\ exam_out = NoFile
    /\ extract_pc = "scan"

\* lines 82-94: the directory is checked and listed
ScanDir ==
    /\ extract_pc = "scan"
    /\ IF exam_dir = NoExamDir
       THEN /\ extract_pc' = "exit_1"
            /\ UNCHANGED <<md_files, exam_i>>
       ELSE /\ md_files' = exam_dir
            /\ exam_i' = 1
            /\ extract_pc' = IF exam_dir = <<>> THEN "exit_0_no_files" ELSE "loop"
    /\ UNCHANGED <<exam_dir, file_outcome, unique_topics, topic_list, exam_out>>
    /\ UNCHANGED notExtract

\* an error ends the loop over the files
StopAtError(i, outcome) ==
    IF outcome[1] \in {"unreadable", "raise"} THEN Len(md_files) + 1 ELSE i + 1

\* lines 96, 105, 121-123: the for loop goes on with the next file,
\* whatever became of this one
NextFile(i, outcome) == i + 1

\* lines 96-123: one iteration of the loop over md_files
ProcessFile ==
    /\ extract_pc = "loop"
    /\ exam_i <= Len(md_files)
    /\ LET outcome == file_outcome[md_files[exam_i]]
           extracted_topics == extract_topics_from_summary(outcome)
       IN /\ unique_topics' =
                IF outcome[1] \in {"unreadable", "blank"} \/ extracted_topics = <<>>
                THEN unique_topics
                ELSE unique_topics \cup ElementsOf(extracted_topics)
          /\ exam_i' = NextFile(exam_i, outcome)
    /\ UNCHANGED <<exam_dir, file_outcome, md_files, topic_list, exam_out,
                   extract_pc>>
    /\ UNCHANGED notExtract

\* lines 142-152: a JSON array for .json, else one topic per line
WrittenFile(suffix, list) ==
    [format |-> IF suffix = ".json" THEN "json" ELSE "txt", items |-> list]

\* lines 126-159: after the loop, nothing is written when no topic was
\* found; else the sorted list is written, unless the directory cannot be
\* made (line 132) or the write fails (lines 157-159)
SaveTopics ==
    /\ extract_pc = "loop"
    /\ exam_i > Len(md_files)
    /\ IF unique_topics = {}
       THEN /\ extract_pc' = "exit_0_no_topics"
            /\ UNCHANGED <<topic_list, exam_out>>
       ELSE \E how \in {"written", "mkdir_failed", "write_failed"} :
            \E suffix \in {".json", ".txt", ".md"} :
              /\ topic_list' = IF how = "mkdir_failed" THEN topic_list
                               ELSE sorted(unique_topics)
              /\ exam_out' = CASE how = "written" ->
                                     WrittenFile(suffix, sorted(unique_topics))
                               [] how = "write_failed" -> <<"truncated">>
                               [] OTHER -> exam_out
              /\ extract_pc' = IF how = "written" THEN "finished" ELSE "exit_1"
    /\ UNCHANGED <<exam_dir, file_outcome, md_files, exam_i, unique_topics>>
    /\ UNCHANGED notExtract

ExtractNext ==
    \/ ScanDir
    \/ ProcessFile
    \/ SaveTopics

(***************************************************************************)
(* structure_exam_topics.py: one run.  The reply of the model is a         *)
(* sequence of tokens: "fence_json" for three backquotes followed by json, *)
(* "fence" for three backquotes alone, the brackets, "{" for the opening   *)
(* of an object up to the colon of its single key, "}", the comma, and two *)
(* string literals "a" and "b".  A parsed JSON value is <<"str", s>>,      *)
(* <<"list", elements>> or <<"dict", value>>.                              *)
(***************************************************************************)
MaxReplyTokens == 5

ReplyTokens == {"fence_json", "fence", "[", "]", "{", "}", ",", "a", "b"}
\* lines 104-108: the texts the model may answer a prompt with
RawTexts(prompt) == SeqsUpTo(ReplyTokens, MaxReplyTokens)

JSONDecodeError == <<"JSONDecodeError">>
None == <<"None">>

JsonStr(s) == <<"str", s>>
JsonList(elems) == <<"list", elems>>
JsonDict(v) == <<"dict", v>>

\* json.loads, by recursive descent over the tokens from position i: the
\* value read and the position after it, or no value
RECURSIVE JsonValue(_, _)
RECURSIVE JsonElements(_, _, _)
JsonValue(s, i) ==
    IF i > Len(s) THEN [ok |-> FALSE]
    ELSE CASE s[i] \in {"a", "b"} ->
                [ok |-> TRUE, val |-> JsonStr(s[i]), next |-> i + 1]
           [] s[i] = "[" ->
                IF i + 1 <= Len(s) /\ s[i + 1] = "]"
                THEN [ok |-> TRUE, val |-> JsonList(<<>>), next |-> i + 2]
                ELSE JsonElements(s, i + 1, <<>>)
           [] s[i] = "{" ->
                LET r == JsonValue(s, i + 1)
                IN IF r.ok /\ r.next <= Len(s) /\ s[r.next] = "}"
                   THEN [ok |-> TRUE, val |-> JsonDict(r.val),
                         next |-> r.next + 1]
                   ELSE [ok |-> FALSE]
           [] OTHER -> [ok |-> FALSE]

JsonElements(s, i, acc) ==
    LET r == JsonValue(s, i)
    IN IF ~r.ok \/ r.next > Len(s) THEN [ok |-> FALSE]
       ELSE IF s[r.next] = ","
            THEN JsonElements(s, r.next + 1, Append(acc, r.val))
       ELSE IF s[r.next] = "]"
            THEN [ok |-> TRUE, val |-> JsonList(Append(acc, r.val)),
                  next |-> r.next + 1]
       ELSE [ok |-> FALSE]

\* json.loads of lines 36 and 126: the whole text is one value, or the
\* decoding fails
json_loads(s) ==
    LET r == JsonValue(s, 1)
    IN IF r.ok /\ r.next = Len(s) + 1 THEN r.val ELSE JSONDecodeError

IsList(v) == v[1] = "list"

\* the positions of s that hold token t
Positions(s, t) == {i \in DOMAIN s : s[i] = t}
MinOf(S) == CHOOSE x \in S : \A y \in S : x <= y
MaxOf(S) == CHOOSE x \in S : \A y \in S : x >= y

\* line 112: the leftmost opening fence that has three backquotes after it
\* (an opening fence holds them too), and the nearest such fence after it
FenceOpen(s) == Positions(s, "fence_json")
FenceCloseAfter(s, i) ==
    {j \in DOMAIN s : j > i /\ s[j] \in {"fence_json", "fence"}}
json_match(s) ==
    FenceOpen(s) # {} /\ FenceCloseAfter(s, MinOf(FenceOpen(s))) # {}

\* line 114: group 1, what stands between the two fences
FencedBlock(s) ==
    LET i == MinOf(FenceOpen(s))
        j == MinOf(FenceCloseAfter(s, i))
    IN SubSeq(s, i + 1, j - 1)

\* lines 117-122: without a fenced block, the reply from its first "[" to
\* its last "]" when it holds both, else the reply
BracketSlice(s) ==
    IF Positions(s, "[") # {} /\ Positions(s, "]") # {}
    THEN SubSeq(s, MinOf(Positions(s, "[")), MaxOf(Positions(s, "]")))
    ELSE s

\* lines 112-122: json_string
json_string_of(s) == IF json_match(s) THEN FencedBlock(s) ELSE BracketSlice(s)

\* lines 104-146: what structure_topics_with_llm returns for a reply
structure_topics_of(s) ==
    LET parsed_json == json_loads(json_string_of(s))
    IN IF parsed_json # JSONDecodeError /\ IsList(parsed_json)
       THEN parsed_json ELSE None

\* line 186: if structured_topics, false for None and for the empty list
Truthy(v) == v # None /\ v # JsonList(<<>>)

\* the files --input_file can name: none, text that is no JSON, a JSON
\* list, a JSON object with a list under "topics", another JSON value, and
\* the files the extractor writes for one or two topics
ExtractorLists ==
    {sorted(S) : S \in (SUBSET {<<"a">>, <<"a", "b">>}) \ {{}}}
ExtractorFiles ==
    {WrittenFile(suffix, l) : suffix \in {".json", ".txt", ".md"},
                              l \in ExtractorLists}
MissingFile == [format |-> "missing", items |-> <<>>]
InputFiles ==
    ExtractorFiles
        \cup {MissingFile, [format |-> "json", items |-> <<>>],
              [format |-> "json_topics_object", items |-> << <<"a">> >>],
              [format |-> "json_other", items |-> <<>>]}

\* lines 32-47: load_topics exits with status 1 for a missing file, for a
\* text that is no JSON and for a JSON value of another shape
LoadExits(file) == file.format \notin {"json", "json_topics_object"}

\* lines 36-38: the list itself, or the list under "topics"
load_topics(file) == file.items

StructIdle ==
    /\ input_file = MissingFile
    /\ original_topics = <<>>
    /\ raw_text = <<>>
    /\ structured_topics = None
    /\ count_warning = FALSE
    /\ structured_out = NoFile
    /\ struct_pc = "idle"

\* lines 163-171: the arguments are parsed, the API is configured
StructStart ==
    /\ input_file \in InputFiles
    /\ original_topics = <<>>
    /\ raw_text = <<>>
    /\ structured_topics = None
    /\ count_warning = FALSE
    /\ structured_out = NoFile
    /\ struct_pc = "load"

\* lines 174-177: the topics are loaded; the run ends with status 1 when
\* the file does not load, with status 0 when it holds no topic
LoadTopics ==
    /\ struct_pc = "load"
    /\ IF LoadExits(input_file)
       THEN /\ struct_pc' = "exit_1_load"
            /\ UNCHANGED original_topics
       ELSE /\ original_topics' = load_topics(input_file)
            /\ struct_pc' = IF load_topics(input_file) = <<>>
                            THEN "exit_0" ELSE "call"
    /\ UNCHANGED <<input_file, raw_text, structured_topics, count_warning,
                   structured_out>>
    /\ UNCHANGED notStruct

\* lines 180-183, 86-146: the prompt is sent; the call raises or gives no
\* text (None), or the reply is parsed
StructureTopics ==
    /\ struct_pc = "call"
    /\ \/ /\ raw_text' = <<>>
          /\ structured_topics' = None
       \/ \E reply \in RawTexts(original_topics) :
            /\ raw_text' = reply
            /\ structured_topics' = structure_topics_of(reply)
    /\ struct_pc' = "returned"
    /\ UNCHANGED <<input_file, original_topics, count_warning, structured_out>>
    /\ UNCHANGED notStruct

\* lines 149-159: save_topics writes the list as JSON, or reports the error
\* lines 186-196: the list is saved, with a warning when its length is not
\* that of the input; without a list the run ends with status 1
SaveStructured ==
    /\ struct_pc = "returned"
    /\ IF Truthy(structured_topics)
       THEN /\ count_warning' =
                  (Len(structured_topics[2]) # Len(original_topics))
            /\ \E written \in BOOLEAN :
                 structured_out' = IF written THEN structured_topics
                                   ELSE structured_out
            /\ struct_pc' = "finished"
       ELSE /\ struct_pc' = "exit_1"
            /\ UNCHANGED <<count_warning, structured_out>>
    /\ UNCHANGED <<input_file, original_topics, raw_text, structured_topics>>
    /\ UNCHANGED notStruct

StructNext ==
    \/ LoadTopics
    \/ StructureTopics
    \/ SaveStructured

(***************************************************************************)
(* Specifications.                                                         *)
(***************************************************************************)
SplitInit ==
    /\ SplitStart /\ IndexerIdle /\ GuideIdle /\ ParseIdle /\ PagesIdle
    /\ SolverIdle
    /\ ExtractIdle
    /\ StructIdle
SpecSplit == SplitInit /\ [][SplitNext]_vars

IndexerInit ==
    /\ SplitIdle /\ IndexerStart /\ GuideIdle /\ ParseIdle /\ PagesIdle
    /\ SolverIdle
    /\ ExtractIdle
    /\ StructIdle
SpecIndexer == IndexerInit /\ [][IndexerNext]_vars

IndexerInitLoaded ==
    /\ SplitIdle /\ IndexerStartLoaded /\ GuideIdle /\ ParseIdle /\ PagesIdle
    /\ SolverIdle
    /\ ExtractIdle
    /\ StructIdle
SpecIndexerLoaded == IndexerInitLoaded /\ [][IndexerNext]_vars

GuideInit ==
    /\ SplitIdle /\ IndexerIdle /\ GuideStart /\ ParseIdle /\ PagesIdle
    /\ SolverIdle
    /\ ExtractIdle
    /\ StructIdle
SpecGuide == GuideInit /\ [][GuideNext]_vars

ParseInit ==
    /\ SplitIdle /\ IndexerIdle /\ GuideIdle /\ ParseStart /\ PagesIdle
    /\ SolverIdle
    /\ ExtractIdle
    /\ StructIdle
SpecParse == ParseInit /\ [][ParseNext]_vars

PagesInit ==
    /\ SplitIdle /\ IndexerIdle /\ GuideIdle /\ ParseIdle /\ PagesStart
    /\ SolverIdle
    /\ ExtractIdle
    /\ StructIdle
SpecPages == PagesInit /\ [][PagesNext]_vars

SolverInit ==
    /\ SplitIdle /\ IndexerIdle /\ GuideIdle /\ ParseIdle /\ PagesIdle
    /\ SolverStart
    /\ ExtractIdle
    /\ StructIdle
SpecSolver == SolverInit /\ [][SolverNext]_vars

ExtractInit ==
    /\ SplitIdle /\ IndexerIdle /\ GuideIdle /\ ParseIdle /\ PagesIdle
    /\ SolverIdle /\ ExtractStart
    /\ StructIdle
SpecExtract == ExtractInit /\ [][ExtractNext]_vars

StructInit ==
    /\ SplitIdle /\ IndexerIdle /\ GuideIdle /\ ParseIdle /\ PagesIdle
    /\ SolverIdle /\ ExtractIdle /\ StructStart
SpecStruct == StructInit /\ [][StructNext]_vars

ReindexInit ==
    /\ SplitIdle /\ IndexerStartAgain /\ GuideIdle /\ ParseIdle /\ PagesIdle
    /\ SolverIdle
    /\ ExtractIdle
    /\ StructIdle
SpecReindex == ReindexInit /\ [][IndexerNext]_vars

\* a run of the indexer with more batches than permits, or a run of the
\* guide builder
FanOutInit ==
    /\ SplitIdle /\ ParseIdle /\ PagesIdle /\ SolverIdle
    /\ ExtractIdle /\ StructIdle
    /\ \/ IndexerStartLoaded /\ GuideIdle
       \/ IndexerIdle /\ GuideStart

FanOutNext ==
    \/ \E f \in Files : StartFile(f)
    \/ \E f \in Files : \E b \in BatchIds : Acquire(f, b)
    \/ \E f \in Files : \E b \in BatchIds : EmbedReturn(f, b)
    \/ \E f \in Files : FinishFile(f)
    \/ Collect
    \/ AddBatch
    \/ AddFails
    \/ WriteDone
    \/ NoTopics
    \/ MakeSemaphore
    \/ PrepTopic
    \/ CreateTasks
    \/ \E i \in 1..MaxTopics : TaskStart(i)
    \/ \E i \in 1..MaxTopics : GenAcquire(i)
    \/ \E i \in 1..MaxTopics : GenReturn(i)
    \/ GatherDone
    \/ save_guide

\* the step FinishFile(f) as the control state of the file task shows it:
\* every batch of f is back and the task goes from its gather to its return
FileTaskReturns(f) ==
    /\ Running
    /\ fpc[f] = "gather"
    /\ \A b \in DOMAIN bstat[f] : bstat[f][b] \in {"none", "ok"}
    /\ fpc' = [fpc EXCEPT ![f] = "done"]

\* the event loop runs a task that is ready, and every call to the embedding
\* or generation service comes back: a step that can be taken is taken
FanOutFairness ==
    /\ WF_vars(\E f \in Files : StartFile(f))
    /\ WF_vars(\E f \in Files : \E b \in BatchIds : Acquire(f, b))
    /\ WF_vars(\E f \in Files : \E b \in BatchIds : EmbedReturn(f, b))
    /\ WF_fpc(\E f \in Files : FileTaskReturns(f))
    /\ WF_vars(Collect)
    /\ WF_vars(GuideNext)

SpecFanOut == FanOutInit /\ [][FanOutNext]_vars /\ FanOutFairness

(***************************************************************************)
(* Claims about the splitter.                                              *)
(***************************************************************************)
SplitReturned == split_pc = "done" /\ Len(text) > chunk_size

\* C8: for every text longer than the window (window > overlap >= 0) the
\* number of chunks returned is ceil((len - overlap) / (window - overlap)).
C8_ChunkCountFormula ==
    (SplitReturned /\ chunk_size > chunk_overlap)
        => Len(split_result) =
               CeilDiv(Len(text) - chunk_overlap, chunk_size - chunk_overlap)

\* the first chunk whole, every later chunk without its first `overlap`
\* characters, concatenated in order
RECURSIVE ConcatTrimmed(_, _)
ConcatTrimmed(cs, overlap) ==
    IF cs = <<>> THEN <<>>
    ELSE PySliceFrom(Head(cs), overlap) \o ConcatTrimmed(Tail(cs), overlap)

Reconstruct(cs, overlap) ==
    IF cs = <<>> THEN <<>> ELSE Head(cs) \o ConcatTrimmed(Tail(cs), overlap)

\* C9 as stated: for every text longer than the window, the overlap-trimmed
\* chunks concatenate to the original text.
C9_ReconstructsAlways ==
    SplitReturned => Reconstruct(split_result, chunk_overlap) = text

\* no window of the text was whitespace-only, so the filter dropped nothing
NoBlankWindow == Len(split_result) = Len(chunks)

\* C9 amended: for every text longer than the window none of whose windows
\* is whitespace-only, the overlap-trimmed chunks concatenate to the
\* original text.
C9_ReconstructsUnlessBlankWindow ==
    (SplitReturned /\ NoBlankWindow)
        => Reconstruct(split_result, chunk_overlap) = text

\* a returned split of three or more overlapping chunks, none dropped, of a
\* text that holds whitespace
C9_Witness ==
    /\ SplitReturned /\ NoBlankWindow
    /\ chunk_overlap > 0
    /\ Len(split_result) >= 3
    /\ \E i \in 1..Len(text) : IsSpace(text[i])
    /\ Reconstruct(split_result, chunk_overlap) = text

\* C10: the cursor strictly increases on every loop iteration, for every
\* window size >= 1 and overlap >= 0 (so the loop terminates).
C10_CursorAdvances == [][SplitIter => start_index' > start_index]_vars

\* C11: a text no longer than the window comes back as one chunk, the text
\* itself (blank or empty texts included).
C11_ShortTextWhole ==
    (split_pc = "done" /\ Len(text) <= chunk_size) => split_result = <<text>>

\* a text exactly as long as the window, with an overlap, returned whole
C11_Witness ==
    /\ split_pc = "done"
    /\ Len(text) = chunk_size /\ Len(text) >= 2
    /\ chunk_overlap > 0 /\ chunk_overlap < chunk_size
    /\ split_result = <<text>>

(***************************************************************************)
(* Claims about page numbering, parsing and metadata.                      *)
(***************************************************************************)
\* the first segment is the title segment: the document name is in its
\* first line
HasTitle == pages[1] # <<>> /\ pages[1][1] = NameLine

\* the non-blank segments from the first one after the title up to segment s
PagesUpTo(s) ==
    {t \in 1..s : NonBlank(pages[t]) /\ ~(t = 1 /\ HasTitle)}

\* C12: only the first segment can be the title segment, and it gets no
\* increment; the k-th non-blank segment after it is assigned page number k,
\* and no assigned page number is below 1.
C12_PageNumbering ==
    \A s \in 1..page_i :
        NonBlank(pages[s]) =>
            IF s = 1 /\ HasTitle
            THEN assigned_page[s] >= 1
            ELSE assigned_page[s] = Cardinality(PagesUpTo(s))

\* a page segment of scenario 1: not blank, no level-4 heading, under
\* CHUNK_SIZE characters
PlainShortPage(seg) ==
    /\ NonBlank(seg)
    /\ \A i \in DOMAIN seg : seg[i] \notin H4Lines
    /\ TextLen(StripLines(seg)) < CHUNK_SIZE

\* the file is one page of scenario 1, alone or after a blank segment
SinglePageNoTitle ==
    \/ Len(pages) = 1 /\ PlainShortPage(pages[1])
    \/ Len(pages) = 2 /\ ~NonBlank(pages[1]) /\ PlainShortPage(pages[2])

\* the file is a title segment and one page of scenario 1
SinglePageWithTitle ==
    /\ Len(pages) = 2
    /\ HasTitle /\ PlainShortPage(pages[1])
    /\ PlainShortPage(pages[2])

\* metadata of page 1 with empty description fields
PlainMetadata ==
    [source_file |-> pdf_name, source_page |-> 1, visual_descriptions |-> <<>>,
     table_descriptions |-> <<>>, equation_descriptions |-> <<>>]

\* C13 as stated: a single short page without headings gives exactly one
\* chunk (one record), page 1, empty description fields, with or without a
\* title segment before it.
C13_ExactlyOneRecord ==
    (pages_pc = "done" /\ (SinglePageNoTitle \/ SinglePageWithTitle)) =>
        /\ Len(md_chunks) = 1
        /\ md_metadata = <<PlainMetadata>>

\* the body of a labelled heading as the claim reads it: the lines after the
\* first line that is the heading, up to the next level-4 heading line,
\* trimmed; empty when the page has no such heading
ClaimedSection(ls, heading) ==
    LET i == FirstOf({k \in DOMAIN ls : ls[k] = heading}) IN
    IF i = 0 THEN <<>>
    ELSE StripLines(Lines(ls, i + 1, NextH4(ls, i) - 1))

\* C14: each description field returned for a page is the trimmed body of
\* the labelled level-4 heading of that page, or empty when the page has no
\* such heading.
C14_FieldsAreHeadingBodies ==
    parse_pc = "done" =>
        /\ data.visual_descriptions = ClaimedSection(page_content, VisualHeading)
        /\ data.table_descriptions = ClaimedSection(page_content, TableHeading)
        /\ data.equation_descriptions = ClaimedSection(page_content, EquationHeading)

(***************************************************************************)
(* Claims about retrieval after a failed query embedding.                  *)
(***************************************************************************)
\* C15 (solver): when embedding the query fails the process does not end,
\* and the context it goes on with is the "no context" sentinel.
C15_EmbeddingFailureContinues ==
    embed_outcome = "failed" =>
        /\ solver_pc # "exit_1"
        /\ solver_pc \in {"generate", "output", "finished"} =>
               formatted_context = SolverNoContext

(***************************************************************************)
(* Claims about the indexing run.                                          *)
(***************************************************************************)
\* the file task of f has returned and the run still holds its batch results
FileReturned(f) == main_pc = "gather" /\ fpc[f] = "done"

RECURSIVE SumSeq(_)
SumSeq(ns) == IF ns = <<>> THEN 0 ELSE Head(ns) + SumSeq(Tail(ns))

\* the number of embeddings the calls of f returned, all batches together
TotalReturned(f) == SumSeq(bret[f])

\* every call of f answered with one embedding per text
OwnCallsClean(f) ==
    /\ ~file_raises[f]
    /\ \A b \in DOMAIN bstat[f] :
          bstat[f][b] = "ok" /\ bret[f][b] = BatchSize(f, b)

\* a call of f failed, or the processing of f raised
OwnFailure(f) ==
    \/ file_raises[f]
    \/ \E b \in DOMAIN bstat[f] : bstat[f][b] = "none"

\* a record without its id
Content(r) ==
    [embedding |-> r.embedding, document |-> r.document, metadata |-> r.metadata]

Contents(recs) == [i \in 1..Len(recs) |-> Content(recs[i])]

\* chunk i of f with its own metadata and the embedding of its own text
ExpectedContent(f, i) ==
    [embedding |-> Emb(ChunkText(f, i)),
     document |-> ChunkText(f, i),
     metadata |-> ChunkMeta(f, i)]

ExpectedContents(f) == [i \in 1..file_chunks[f] |-> ExpectedContent(f, i)]

\* C2: a file hands the write step no record or one record per chunk; none
\* when one of its batches failed or the embeddings returned are not as many
\* as its chunks, one per chunk otherwise.
C2_AllOrNothing ==
    \A f \in Files :
        /\ Len(results[f]) \in {0, file_chunks[f]}
        /\ fpc[f] # "done" => results[f] = <<>>
        /\ FileReturned(f) =>
              IF OwnFailure(f) \/ TotalReturned(f) # file_chunks[f]
              THEN Len(results[f]) = 0
              ELSE Len(results[f]) = file_chunks[f]

\* a file of two batches, one failed and one answered, returned no record
C2_Witness ==
    \E f \in Files :
        /\ FileReturned(f)
        /\ DOMAIN bstat[f] = 1..2
        /\ bstat[f][1] = "ok" /\ bret[f][1] = CHROMA_BATCH_SIZE
        /\ bstat[f][2] = "none"
        /\ results[f] = <<>>

\* C3: a failure in one file leaves the records of a sibling as they are in
\* a run without that failure: all of them when the sibling's own calls
\* answered properly, none when the sibling failed itself.
C3_SiblingsUnaffected ==
    \A f \in Files : \A g \in Files \ {f} :
        (FileReturned(g) /\ OwnFailure(f)) =>
            /\ OwnCallsClean(g) => Contents(results[g]) = ExpectedContents(g)
            /\ OwnFailure(g) => results[g] = <<>>

\* a file with a failed batch returned nothing, and its two-batch sibling
\* returned all its records after that failure
C3_Witness ==
    \E f \in Files : \E g \in Files \ {f} :
        /\ FileReturned(f) /\ FileReturned(g)
        /\ \E b \in DOMAIN bstat[f] : bstat[f][b] = "none"
        /\ results[f] = <<>>
        /\ file_chunks[g] > CHROMA_BATCH_SIZE
        /\ Len(results[g]) = file_chunks[g]
        /\ results[g][1].id > 0

\* C4: when every batch call returns one embedding per text in input order,
\* record i of the file is chunk i with the metadata of chunk i and the
\* embedding of chunk i, whatever order the calls came back in.
C4_RequestOrder ==
    \A f \in Files :
        (FileReturned(f) /\ OwnCallsClean(f)) =>
            /\ Len(results[f]) = file_chunks[f]
            /\ \A i \in 1..Len(results[f]) :
                  /\ results[f][i].document = ChunkText(f, i)
                  /\ results[f][i].metadata = ChunkMeta(f, i)
                  /\ results[f][i].embedding = Emb(ChunkText(f, i))

\* the second batch came back before the first, and the records are in
\* request order
C4_Witness ==
    \E f \in Files :
        /\ FileReturned(f) /\ OwnCallsClean(f)
        /\ first_done[f] = 2
        /\ Len(results[f]) = CHROMA_BATCH_SIZE + 1
        /\ results[f][1].embedding = Emb(ChunkText(f, 1))
        /\ results[f][CHROMA_BATCH_SIZE + 1].embedding
               = Emb(ChunkText(f, CHROMA_BATCH_SIZE + 1))

\* C5: at most MAX_CONCURRENT_EMBEDDINGS embedding calls are in flight, all
\* files together.
C5_EmbeddingLimit == Cardinality(InFlight) <= MAX_CONCURRENT_EMBEDDINGS

\* every permit is taken by calls of the first file and the call of the
\* second file waits
C5_Witness ==
    /\ Cardinality(InFlight) = MAX_CONCURRENT_EMBEDDINGS
    /\ \A p \in InFlight : p[1] = 1
    /\ sem_waiters = <<<<2, 1>>>>
    /\ sem_value = 0

\* every file task of the run has returned
EveryFileTaskReturned == \A f \in Files : fpc[f] = "done"

\* no embedding call is in flight: every permit is back
NoCallInFlight == sem_value = MAX_CONCURRENT_EMBEDDINGS

IsPrefix(s, t) == Len(s) <= Len(t) /\ SubSeq(t, 1, Len(s)) = s

\* C7: the collection is written only after every file task has returned
\* and no embedding call is in flight, one batch of at most
\* CHROMA_BATCH_SIZE records at a time, each batch appended after the last;
\* while a file task or a call is still running the collection is as the
\* run found it.
C7_WriteAfterAllTasks ==
    /\ [](collection # <<>> => (EveryFileTaskReturned /\ NoCallInFlight))
    /\ [][collection' # collection =>
            /\ EveryFileTaskReturned /\ NoCallInFlight
            /\ main_pc = "write"
            /\ IsPrefix(collection, collection')
            /\ Len(collection') - Len(collection) <= CHROMA_BATCH_SIZE]_vars

\* two batches have been written, the second shorter than the first
C7_Witness ==
    /\ main_pc = "write"
    /\ Len(collection) > CHROMA_BATCH_SIZE
    /\ write_i = 2 * CHROMA_BATCH_SIZE
    /\ EveryFileTaskReturned /\ NoCallInFlight

(***************************************************************************)
(* Claims about the guide-building run.                                    *)
(***************************************************************************)
\* the gather of the generation tasks has returned
Gathered == guide_pc \in {"compiled", "saved", "save_failed"}

\* what the task created for topic i returned, read off its prompt: the
\* dummy message naming the topic, an answer to the prompt made for the
\* topic, or one of the two error messages
IsOutputOfTaskFor(x, i) ==
    /\ x = gout[i]
    /\ IF topic_data_for_generation[i][2] = NoPrompt
       THEN x = error_task(topics[i])
       ELSE \E outcome \in GenOutcomes :
              /\ x = generate_guide_explanation_output(
                         topic_data_for_generation[i][2], outcome)
              /\ topic_data_for_generation[i][2][2] = topics[i]

\* C1: once the generation tasks are gathered there is one explanation per
\* topic, explanation i is what the task created for topic i returned, and
\* section i of the guide, compiled or written, holds explanation i.
C1_OutputOrder ==
    Gathered =>
        /\ Len(explanations) = Len(topics)
        /\ \A i \in 1..Len(topics) : IsOutputOfTaskFor(explanations[i], i)
        /\ Len(final_guide_content) = Len(topics) + 1
        /\ \A i \in 1..Len(topics) :
              final_guide_content[i + 1] = GuideSection(gout[i])
        /\ guide_pc = "saved" => guide_file = final_guide_content

\* the last topic's call came back first, every call answered with text,
\* and the guide is compiled in topic order
C1_Witness ==
    /\ guide_pc = "compiled"
    /\ Len(topics) >= 2
    /\ completed # <<>>
    /\ completed[1] = Len(topics)
    /\ \A i \in 1..Len(topics) :
          explanations[i] = <<"response.text", topic_data_for_generation[i][2]>>

\* C6: the generation calls in flight are never more than the configured
\* limit.
C6_GenerationLimit == Cardinality(GenInFlight) <= max_concurrent_generations

\* as many calls in flight as a limit given on the command line allows,
\* and a further task waiting for a permit
C6_Witness ==
    /\ max_concurrent_generations = MaxConcurrency
    /\ Cardinality(GenInFlight) = max_concurrent_generations
    /\ gsem_waiters # <<>>

\* C16: a topic whose query embedding failed is never queried for in the
\* vector store, its task never waits for a permit nor has a call in
\* flight, and once the tasks are gathered there is one explanation per
\* topic and the one at the topic's position is the placeholder naming it.
C16_SyntheticErrorTask ==
    /\ \A i \in embed_failed :
          /\ i \notin chroma_queries
          /\ topic_data_for_generation[i] = <<topics[i], NoPrompt>>
          /\ i \in DOMAIN gtask => gtask[i] \in {"created", "done"}
          /\ \A k \in DOMAIN gsem_waiters : gsem_waiters[k] # i
          /\ Gathered => explanations[i] = error_task(topics[i])
    /\ Gathered => Len(explanations) = Len(topics)

\* the embedding of a topic in the middle failed, the topics around it
\* were answered, and the tasks are gathered
C16_Witness ==
    /\ Gathered
    /\ Len(topics) = 3
    /\ embed_failed = {2}
    /\ chroma_queries = {1, 3}
    /\ explanations[1][1] = "response.text"
    /\ explanations[3][1] = "response.text"
    /\ explanations[2] = error_task(Topic(2))

\* a call that raised returns the message carrying the error text
RaisePlaceholder == <<"*Error generating explanation for this topic: ", "e", "*">>

\* what the call made for the prompt returns when it does not raise
OutputsWithoutRaise(prompt) ==
    {generate_guide_explanation_output(prompt, outcome) :
        outcome \in GenOutcomes \ {"raise"}}

\* C17: a generation call that raised gives its permit back, so the permits
\* held and free always add up to the limit; once the tasks are gathered
\* every task has finished, the explanation of a topic whose call raised is
\* the message carrying the error text, every other explanation is what
\* its own task returns without a raise, the guide holds one section per
\* explanation, and the file that is written is that guide.
C17_GenerationFailureIsolated ==
    /\ guide_pc = "gather" \/ Gathered =>
           gsem_value + Cardinality(GenInFlight) = max_concurrent_generations
    /\ Gathered =>
          /\ \A i \in DOMAIN gtask : gtask[i] = "done"
          /\ \A i \in gen_raised :
                /\ explanations[i] = RaisePlaceholder
                /\ final_guide_content[i + 1] = GuideSection(RaisePlaceholder)
          /\ \A j \in (1..Len(topics)) \ gen_raised :
                IF j \in embed_failed
                THEN explanations[j] = error_task(topics[j])
                ELSE explanations[j] \in
                        OutputsWithoutRaise(topic_data_for_generation[j][2])
          /\ Len(final_guide_content) = Len(topics) + 1
    /\ guide_pc = "saved" => guide_file = final_guide_content

\* with one permit, the calls of the first two topics raised, the third
\* topic was answered, and the guide is written
C17_Witness ==
    /\ guide_pc = "saved"
    /\ max_concurrent_generations = 1
    /\ Len(topics) = 3
    /\ gen_raised = {1, 2}
    /\ explanations[3] = <<"response.text", topic_data_for_generation[3][2]>>
    /\ guide_file[2] = GuideSection(RaisePlaceholder)

\* the explanation opens with the level-2 heading of topic t: the dummy
\* message does (line 258), and so does a reply of the model that follows
\* instruction 5 of its prompt (line 160); the two error messages of lines
\* 192 and 196-200 name no topic
StartsWithHeading(exp, t) ==
    \/ exp[1] = "## " /\ exp[2] = t
    \/ exp[1] = "response.text" /\ exp[2][2] = t

\* C18: the guide, compiled or written, is the preamble followed by one
\* section per topic, and section i is the heading of topic i, its
\* explanation and a horizontal rule, whatever became of the topic's
\* embedding and generation.
C18_HeadingInEverySection ==
    Gathered =>
        /\ Len(final_guide_content) = Len(topics) + 1
        /\ final_guide_content[1] = GuideHeader
        /\ \A i \in 1..Len(topics) :
              /\ final_guide_content[i + 1][2] = "---"
              /\ StartsWithHeading(final_guide_content[i + 1][1], topics[i])
        /\ guide_pc = "saved" => guide_file = final_guide_content

(***************************************************************************)
(* Claims about the topic extractor.                                       *)
(***************************************************************************)
\* the stretch a..b of reply r is a line of r without the blanks around it:
\* it holds no line feed, begins and ends with a character that is not a
\* blank, and only blanks lie between it and the line feeds (or the ends
\* of the reply) on either side
IsTrimmedLine(r, a, b) ==
    /\ a <= b
    /\ \A k \in a..b : r[k] # "\n"
    /\ r[a] # " " /\ r[b] # " "
    /\ \E lo \in 1..a :
          /\ lo = 1 \/ r[lo - 1] = "\n"
          /\ \A k \in lo..(a - 1) : r[k] = " "
    /\ \E hi \in b..Len(r) :
          /\ hi = Len(r) \/ r[hi + 1] = "\n"
          /\ \A k \in (b + 1)..hi : r[k] = " "

TrimmedLinesOf(r) ==
    {SubSeq(r, ab[1], ab[2]) :
        ab \in {x \in (DOMAIN r) \X (DOMAIN r) : IsTrimmedLine(r, x[1], x[2])}}

\* the replies the model gave in this run
RepliesOfRun ==
    {file_outcome[f][2] : f \in {g \in DOMAIN file_outcome :
                                    file_outcome[g][1] = "reply"}}

TrimmedLinesOfRun == UNION {TrimmedLinesOf(r) : r \in RepliesOfRun}

\* C19: the list in the written file holds exactly the non-empty trimmed
\* lines of the replies of the run, in strictly ascending order (sorted and
\* without duplicates); it is thereby fixed by the set of replies, whatever
\* the order in which the files were listed.
C19_SortedUniqueTrimmedLines ==
    extract_pc = "finished" =>
        /\ ElementsOf(exam_out.items) = TrimmedLinesOfRun
        /\ \A i, j \in DOMAIN exam_out.items :
              i < j => LexLess(exam_out.items[i], exam_out.items[j])
        /\ exam_out.items = topic_list

\* the file listed second replied b and a on two lines, the file listed
\* first replied a between blanks, and the written list is a, b
C19_Witness ==
    /\ extract_pc = "finished"
    /\ md_files = <<"exam2.md", "exam1.md">>
    /\ file_outcome["exam1.md"] = <<"reply", <<"b", "\n", "a">> >>
    /\ file_outcome["exam2.md"] = <<"reply", <<" ", "a", " ">> >>
    /\ exam_out.items = << <<"a">>, <<"b">> >>

\* the loop over the files is over
ExtractLoopDone ==
    \/ extract_pc \in {"finished", "exit_0_no_topics"}
    \/ extract_pc = "exit_1" /\ md_files # <<>>

\* C20: when the loop over the files is over, the topics found are those
\* of the replies of the files whose call succeeded, a file that could not
\* be read or whose call raised adding none and stopping nothing; and when
\* there are none, the run ends without an output file.
C20_FailedFileAddsNothing ==
    ExtractLoopDone =>
        /\ exam_i = Len(md_files) + 1
        /\ unique_topics = TrimmedLinesOfRun
        /\ TrimmedLinesOfRun = {} <=> extract_pc = "exit_0_no_topics"
        /\ extract_pc = "exit_0_no_topics" => exam_out = NoFile

\* the call for the file listed first raised, the file listed second gave
\* a topic, and the list with that topic is written
C20_Witness ==
    /\ extract_pc = "finished"
    /\ Len(md_files) = 2
    /\ file_outcome[md_files[1]] = <<"raise">>
    /\ file_outcome[md_files[2]] = <<"reply", <<"a", "b">> >>
    /\ exam_out.items = << <<"a", "b">> >>

(***************************************************************************)
(* Claims about the topic structurer.                                      *)
(***************************************************************************)
\* the run is over, after a call to the model
StructRunOver == struct_pc \in {"finished", "exit_1"}

\* the value parsed in the order stated: the fenced block if there is one,
\* else the whole reply if it is JSON, else the reply from its first "[" to
\* its last "]"
ValueParsedAsStated(s) ==
    IF json_match(s) THEN json_loads(FencedBlock(s))
    ELSE IF json_loads(s) # JSONDecodeError THEN json_loads(s)
    ELSE json_loads(BracketSlice(s))

\* C21: when the fenced block, else the whole reply, else the slice between
\* the first "[" and the last "]" does not parse to an array, the run ends
\* with a non-zero status and without an output file.
C21_NonArrayFailsRun ==
    StructRunOver =>
        LET v == ValueParsedAsStated(raw_text)
        IN (v = JSONDecodeError \/ ~IsList(v)) =>
              struct_pc = "exit_1" /\ structured_out = NoFile

\* the array the reply parses to, by lines 112-128
ArrayReturned(s) == json_loads(json_string_of(s))

\* C22: whenever the reply parses to an array, of whatever length, the run
\* goes on to save it, and the file it writes holds exactly that array.
C22_EveryArrayIsWritten ==
    (StructRunOver /\ IsList(ArrayReturned(raw_text))) =>
        /\ struct_pc = "finished"
        /\ structured_topics = ArrayReturned(raw_text)
        /\ structured_out # NoFile => structured_out = ArrayReturned(raw_text)

\* C23: a file the extractor can write is loaded by the structurer, and
\* the list loaded is the list the extractor wrote.
C23_ExtractorFilesLoad ==
    (input_file \in ExtractorFiles /\ struct_pc # "load") =>
        /\ struct_pc # "exit_1_load"
        /\ original_topics = input_file.items

(***************************************************************************)
(* Claims about the formatted context.                                     *)
(***************************************************************************)
\* the query of the solver run produced no record
SolverNothingFound == solver_results.failed \/ Len(solver_results.hits) = 0

\* C24: once the context is formatted, it is the sentinel exactly when the
\* query failed or returned no record, as it does for an empty collection
\* and for n_results = 0; the prompt then carries the sentinel and the
\* explanation is generated from that prompt.  Otherwise the context holds
\* one block per record returned, block i numbered i and made of record i.
C24_SentinelOrOneBlockPerRecord ==
    solver_pc \in {"generate", "output", "finished"} =>
        /\ formatted_context = SolverNoContext <=> SolverNothingFound
        /\ (n_results = 0 \/ ranked_store = <<>>) => SolverNothingFound
        /\ rag_prompt = construct_rag_prompt(query, formatted_context)
        /\ solver_pc # "generate" =>
               \E outcome \in GenOutcomes :
                  explanation = generate_explanation(rag_prompt, outcome)
        /\ ~SolverNothingFound =>
               /\ Len(formatted_context.chunks) = Len(solver_results.hits)
               /\ \A i \in DOMAIN formatted_context.chunks :
                     /\ formatted_context.chunks[i].chunk = i
                     /\ formatted_context.chunks[i].text =
                            solver_results.hits[i].doc
                     /\ formatted_context.chunks[i].source_page =
                            solver_results.hits[i].source_page

\* a query for two records returned the two records of the collection, the
\* described one first, and the explanation was generated from them
C24_Witness ==
    /\ solver_pc = "finished"
    /\ n_results = 2
    /\ solver_results = QueryReturned(<<HitDescribed, HitPlain>>)
    /\ Len(formatted_context.chunks) = 2
    /\ formatted_context.chunks[2].text = "d1"
    /\ formatted_context.chunks[2].descriptions = <<>>
    /\ explanation = generate_explanation(rag_prompt, "text")

(***************************************************************************)
(* Claims about the parsing of one page.                                   *)
(***************************************************************************)
\* the level-4 headings that carry one of the three labels of headings_map
FixedLabelLines == {headings_map[k][1] : k \in DOMAIN headings_map}

\* the first position past `from` of a heading line with a fixed label, or
\* one past the end
NextFixedLabel(ls, from) ==
    LET k == FirstOf({i \in DOMAIN ls : i > from /\ ls[i] \in FixedLabelLines})
    IN  IF k = 0 THEN Len(ls) + 1 ELSE k

\* C25: when the page is parsed, the main text is the text before the first
\* level-4 heading with a fixed label, or the whole page when there is none,
\* so that a level-4 heading with another label and the text under it stay
\* in the main text; the description of a heading that is found runs to the
\* next heading with a fixed label or to the end of the page.
C25_MainTextUntilFixedLabel ==
    parse_pc = "done" =>
        /\ data.main_text =
               StripLines(Lines(page_content, 1,
                                NextFixedLabel(page_content, 1) - 1))
        /\ \A k \in DOMAIN headings_map :
               LET i == HeadingAt(page_content, headings_map[k][1])
                   j == BodyStart(page_content, i)
               IN  i # 0 =>
                      data[headings_map[k][2]] =
                         StripLines(Lines(page_content, j,
                                          NextFixedLabel(page_content, j) - 1))

(***************************************************************************)
(* Claims about the order of preparation and generation.                   *)
(***************************************************************************)
\* topic i went through the preparation loop: its embedding failed, or it
\* was embedded and the collection was queried for it
Prepared(i) ==
    /\ i <= Len(topic_data_for_generation)
    /\ i \in embed_failed \/ i \in chroma_queries

\* the generation tasks exist: gather has them, or they have run
GenerationBegun == guide_pc \in {"gather", "compiled", "saved", "save_failed"}

\* C26: once the generation tasks exist every topic has been prepared, and
\* while a generation call waits for a permit or is in flight no step embeds
\* a topic or queries the collection.
C26_PreparationBeforeGeneration ==
    /\ [](GenerationBegun => \A i \in DOMAIN topics : Prepared(i))
    /\ [][(\E i \in DOMAIN gtask : gtask[i] \in {"waiting", "inflight"}) =>
             UNCHANGED <<embed_failed, chroma_queries,
                         topic_data_for_generation>>]_vars

\* two topics were embedded and queried for, and the call of one is in
\* flight while the other has not started
C26_Witness ==
    /\ Len(topics) = 2
    /\ chroma_queries = {1, 2}
    /\ gtask = <<"inflight", "created">>

(***************************************************************************)
(* Claims about the permits of the two semaphores.                         *)
(***************************************************************************)
\* the permits of the indexer's semaphore that are taken
EmbedPermitsInUse == MAX_CONCURRENT_EMBEDDINGS - sem_value

\* the permits of the guide builder's semaphore that are taken
GenPermitsInUse == max_concurrent_generations - gsem_value

\* the fan-out of the indexer is over and the write step is reached (with
\* records to write, or with none)
IndexerFanOutOver == main_pc \in {"write", "finished"}

\* C27: in a run of the indexer and in a run of the guide builder with a
\* limit of at least 1, the permits taken are those of the calls in flight,
\* whether the calls before them returned or raised, and the run gets to its
\* write step with every task done, no task waiting and no permit taken.
C27_FanOutTerminates ==
    /\ [](main_pc = "gather" => EmbedPermitsInUse = Cardinality(InFlight))
    /\ [](guide_pc = "gather" => GenPermitsInUse = Cardinality(GenInFlight))
    /\ (main_pc = "gather") ~>
          (IndexerFanOutOver /\ AllFilesDone
             /\ sem_waiters = <<>> /\ EmbedPermitsInUse = 0)
    /\ (guide_pc = "prep" /\ max_concurrent_generations >= 1) ~>
          (/\ guide_pc = "compiled"
           /\ \A i \in DOMAIN topics : i \in DOMAIN gtask /\ gtask[i] = "done"
           /\ gsem_waiters = <<>> /\ GenPermitsInUse = 0)

\* three topics went through one permit, the call of the first raised, and
\* the guide is compiled with the permit back
C27_Witness ==
    /\ guide_pc = "compiled"
    /\ max_concurrent_generations = 1
    /\ Len(topics) = 3
    /\ embed_failed = {}
    /\ gen_raised = {1}
    /\ GenPermitsInUse = 0

(***************************************************************************)
(* Claims about the final write of the indexer.                            *)
(***************************************************************************)
\* the records the file tasks returned, in file order then chunk order
SurvivingRecords == Flatten([f \in Files |-> results[f]])

\* C28: when a write fails at batch k the collection holds the records of
\* the batches 1..k-1 and nothing more, and no step of the run follows the
\* report of the error; when every write succeeded the collection holds
\* every record the file tasks returned, once, in file order then chunk
\* order, each with the id, embedding, text and metadata of one record.
C28_WriteStopsAtFailedBatch ==
    /\ [](main_pc = "write_failed" =>
            /\ write_i < Len(SurvivingRecords)
            /\ write_i % CHROMA_BATCH_SIZE = 0
            /\ added_count = write_i
            /\ collection = SubSeq(SurvivingRecords, 1, write_i))
    /\ [](main_pc = "finished" => collection = SurvivingRecords)
    /\ [][main_pc = "write_failed" => UNCHANGED vars]_vars

\* the second write of a run with three batches failed: the first hundred
\* records are in the collection
C28_Witness ==
    /\ main_pc = "write_failed"
    /\ Len(SurvivingRecords) = 2 * CHROMA_BATCH_SIZE + 2
    /\ write_i = CHROMA_BATCH_SIZE
    /\ Len(collection) = CHROMA_BATCH_SIZE
    /\ collection[CHROMA_BATCH_SIZE] = results[1][CHROMA_BATCH_SIZE]

(***************************************************************************)
(* Claims about the ids of the records.                                    *)
(***************************************************************************)
\* the ids of the records of a sequence
IdsOf(recs) == {recs[k].id : k \in DOMAIN recs}

\* the records of recs that hold chunk i of file f
RecordsOfChunk(recs, f, i) ==
    {k \in DOMAIN recs : /\ recs[k].document = ChunkText(f, i)
                         /\ recs[k].metadata = ChunkMeta(f, i)}

\* the second run lost no file and no write
SecondRunComplete ==
    /\ main_pc = "finished"
    /\ \A f \in Files : Len(results[f]) = file_chunks[f]

\* C29: in a second run over unchanged files no two records of the
\* collection and of the run share an id, no step changes or removes a
\* record the collection holds, and a run that lost nothing ends with two
\* records of every chunk, under two ids.
C29_FreshIdsNotIdempotent ==
    /\ [](/\ Cardinality(IdsOf(collection)) = Len(collection)
          /\ \A f \in Files :
                /\ Cardinality(IdsOf(results[f])) = Len(results[f])
                /\ IdsOf(results[f]) \cap IdsOf(EarlierRun(file_chunks)) = {}
                /\ \A g \in Files \ {f} :
                      IdsOf(results[f]) \cap IdsOf(results[g]) = {})
    /\ [][/\ Len(collection') >= Len(collection)
          /\ SubSeq(collection', 1, Len(collection)) = collection]_vars
    /\ [](SecondRunComplete =>
            /\ Len(collection) = 2 * Len(EarlierRun(file_chunks))
            /\ \A f \in Files : \A i \in 1..file_chunks[f] :
                  Cardinality(RecordsOfChunk(collection, f, i)) = 2)

\* both files were indexed a second time: the one chunk of the second file
\* is in the collection twice, under the ids of the first and second run
C29_Witness ==
    /\ SecondRunComplete
    /\ file_chunks = <<CHROMA_BATCH_SIZE + 1, 1>>
    /\ Len(collection) = 2 * (CHROMA_BATCH_SIZE + 2)
    /\ Cardinality(RecordsOfChunk(collection, 2, 1)) = 2
    /\ Cardinality({collection[k].id :
                        k \in RecordsOfChunk(collection, 2, 1)}) = 2

====
